---- MODULE Spec2Model ----
(***************************************************************************)
(* AudioShelf playback session core: PlayerFrame state, the MPV engine     *)
(* wrapper, the wx event queues (CallAfter / CallLater), the persisted     *)
(* playback state and the SleepTimer.  Indices are 0-based as in the       *)
(* Python source; a Python list l is the sequence with l[i] at i + 1.      *)
(***************************************************************************)
EXTENDS Integers, Sequences, FiniteSets, TLC

(* ------------------------------ bounds -------------------------------- *)

\* longest wx.CallAfter queue / number of outstanding wx.CallLater timers
MaxQueue == 1
\* wall clock (seconds) stops advancing here
MaxClock == 603
\* expiries of the countdown dialog's 1000 ms timer taken in one step
TickBatch == 40

(* ------------------------- program constants -------------------------- *)

NearEndMs == 1000
AutoSaveTicks == 30
HistoryThresholdMs == 60000
DEFAULT_COUNTDOWN_SECONDS == 120
batch_size == 100

(* ------------------------------ catalog ------------------------------- *)

Books == {1, 2}
\* a third book: a file shorter than a second, a file whose duration has not
\* been measured yet (stored as 0) and a file of ordinary length
MixedBook == 3
\* a fourth book: one file longer than a minute
LongBook == 4
\* durations (ms) of the files of each book as stored in the catalog, in order
Catalog(b) == IF b = 1 THEN <<20000, 20000>>
              ELSE IF b = 2 THEN <<20000>>
              ELSE IF b = LongBook THEN <<90000>>
              ELSE <<500, 0, 20000>>
\* the length the engine finds for a file: the stored one, when there is one
MediaDurations(durs) == [i \in DOMAIN durs |-> IF durs[i] = 0 THEN 20000 ELSE durs[i]]
\* positions the engine clock is observed at while a file plays
PosGrid == {5000, 19500}
\* wall-clock steps in seconds
ClockSteps == {299, 301}
NoState == [file |-> -1, pos |-> -1]

VARIABLES
    book_id,                    \* frame.book_id
    book_file_durations,        \* frame.book_file_durations (one per book_files_data row)
    current_file_duration_ms,   \* frame.current_file_duration_ms
    current_file_index,         \* frame.current_file_index
    engine_to_frame_index_map,  \* frame.engine_to_frame_index_map
    is_playing,                 \* frame.is_playing
    is_exiting,                 \* frame.is_exiting
    has_engine,                 \* frame.engine is not None
    ui_timer,                   \* frame.ui_timer.IsRunning()
    save_state_counter,         \* frame.save_state_counter
    last_pause_time,            \* frame.last_pause_time (0 = none)
    start_pos_ms,               \* frame.start_pos_ms
    loop_point_a_ms,            \* frame.loop_point_a_ms (-1 = None)
    is_file_looping,            \* frame.is_file_looping
    engine,                     \* MpvEngine / mpv player state
    evq,                        \* wx.CallAfter queue (FIFO)
    later,                      \* outstanding wx.CallLater(100, ...) timers (FIFO)
    db,                         \* playback_state table: book -> [file, pos]
    finished,                   \* books.is_finished
    settings,                   \* settings cache
    now,                        \* wall clock, seconds
    sleep,                      \* SleepTimer fields and its wx.Timer
    dlg,                        \* pending / open sleep-timer confirmation dialog
    started,                    \* LibraryFrame.start_playback has called player.start_playback()
    worker,                     \* the background duration worker thread
    op,                         \* the handler that ran last
    fx                          \* its side effects, in program order

vars == <<book_id, book_file_durations, current_file_duration_ms, current_file_index, engine_to_frame_index_map,
          is_playing, is_exiting, has_engine, ui_timer, save_state_counter,
          last_pause_time, start_pos_ms, engine, evq, later, db, finished, settings,
          now, sleep, dlg, started, worker, loop_point_a_ms, is_file_looping, op, fx>>

frameVars == <<book_id, book_file_durations, current_file_duration_ms, current_file_index, engine_to_frame_index_map,
               is_playing, is_exiting, has_engine, ui_timer, save_state_counter,
               last_pause_time, start_pos_ms, loop_point_a_ms, is_file_looping>>

(* --------------------------- small helpers ---------------------------- *)

Max(a, b) == IF a > b THEN a ELSE b
Min(a, b) == IF a < b THEN a ELSE b

\* one side effect of a handler: an engine call, a catalog write, a spoken
\* notification, a scheduled callback
Fx(k, a, b, c) == [k |-> k, a |-> a, b |-> b, c |-> c]
Op(n, a) == [name |-> n, a |-> a]
Ev(k, a) == [k |-> k, a |-> a]

Kinds(s) == {s[i].k : i \in DOMAIN s}
CountKind(s, k) == Cardinality({i \in DOMAIN s : s[i].k = k})
FirstIdx(s, k) == IF k \in Kinds(s) THEN CHOOSE i \in DOMAIN s : s[i].k = k /\ \A j \in DOMAIN s : s[j].k = k => i <= j ELSE 0

NumFiles == Len(book_file_durations)

(* ------------------------------ engine -------------------------------- *)
\* engine.count      playlist-count
\* engine.pos        playlist-pos (-1: none)
\* engine.loaded     the current file is loaded (time-pos / duration available)
\* engine.time       time-pos in ms while loaded
\* engine.pause      the pause property
\* engine.idle       idle-active
\* engine.initial    MpvEngine._is_initial_load
\* engine.pending    MpvEngine._pending_start_time_ms
\* engine.advancing  MpvEngine._is_advancing_from_eof
\* engine.durs       real durations of the playlist entries
\* engine.ab_loop_a  ab-loop-a in ms (-1: 'no')
\* engine.ab_loop_b  ab-loop-b in ms (-1: 'no')
\* engine.loop_file  loop-file is 'inf'

EngineNew == [count |-> 0, pos |-> -1, loaded |-> FALSE, time |-> 0, pause |-> FALSE,
              idle |-> TRUE, initial |-> FALSE, pending |-> 0, advancing |-> FALSE,
              durs |-> <<>>, ab_loop_a |-> -1, ab_loop_b |-> -1, loop_file |-> FALSE]

EngCurDur(e) == IF e.pos >= 0 /\ e.pos < Len(e.durs) THEN e.durs[e.pos + 1] ELSE 0

get_time(e) == IF e.loaded THEN e.time ELSE 0
get_length(e) == IF e.loaded THEN EngCurDur(e) ELSE 0
engine_is_playing(e) == ~e.idle /\ ~e.pause
get_current_file_index(e) == e.pos

play(e) == [e EXCEPT !.pause = FALSE]
pause(e) == [e EXCEPT !.pause = TRUE]

\* player.command('seek', t, 'absolute'): mpv keeps the position inside the file
MpvSeek(e, t) == IF e.loaded THEN [e EXCEPT !.time = Max(0, Min(t, EngCurDur(e)))] ELSE e

set_time(e, t) == IF e.initial THEN [e EXCEPT !.pending = t] ELSE MpvSeek(e, t)

\* writing playlist-pos (re)starts the entry; an index outside the playlist raises.
\* The 'playlist-pos' observer clears the A-B loop and loop-file on the engine's own thread.
SetPlaylistPos(e, idx) ==
    [e EXCEPT !.pos = idx, !.loaded = FALSE, !.time = 0, !.idle = FALSE,
              !.ab_loop_a = -1, !.ab_loop_b = -1, !.loop_file = FALSE]

playlist_jump_ok(e, idx) == idx >= 0 /\ idx < e.count
playlist_jump(e, idx, ms) ==
    IF playlist_jump_ok(e, idx)
    THEN SetPlaylistPos([e EXCEPT !.initial = TRUE, !.pending = ms], idx)
    ELSE [e EXCEPT !.initial = TRUE, !.pending = ms]

\* 'playlist-next' / 'playlist-prev' fail at the ends of the playlist
playlist_next(e) == IF e.pos >= 0 /\ e.pos + 1 < e.count THEN SetPlaylistPos(e, e.pos + 1) ELSE e
playlist_previous(e) == IF e.pos > 0 THEN SetPlaylistPos(e, e.pos - 1) ELSE e

load_playlist_ok(durs, start) == Len(durs) > 0 /\ start >= 0 /\ start < Len(durs)
load_playlist(e, durs, start, ms) ==
    [e EXCEPT !.initial = TRUE, !.pending = ms, !.count = Len(durs), !.durs = durs,
              !.pos = start, !.loaded = FALSE, !.time = 0, !.idle = FALSE, !.pause = TRUE,
              !.ab_loop_a = -1, !.ab_loop_b = -1, !.loop_file = FALSE]

stop(e) == [e EXCEPT !.count = 0, !.durs = <<>>, !.pos = -1, !.loaded = FALSE, !.time = 0,
                     !.idle = TRUE]

\* the 'playlist-pos' observer: a change of the index is posted to the UI
\* thread with wx.CallAfter(on_engine_file_changed, index)
FileChangedEvents(e1, e2) ==
    IF e2.pos # e1.pos /\ e2.pos >= 0 THEN <<Ev("file_changed", e2.pos)>> ELSE <<>>

(* ------------------------------ IndexMap ------------------------------ *)

\* a loop that appends the first row's index for every row
BuildIndexMapFirstRow(n) == [e \in 1..n |-> 0]
\* start_playback's loop: one engine entry per book_files_data row, holding
\* enumerate()'s index i
BuildIndexMap(n) == [e \in 1..n |-> e - 1]

InMap(map, i) == \E e \in DOMAIN map : map[e] = i
\* list.index(i): the first engine index holding i; -1 stands for ValueError
ToEngine(map, i) ==
    IF InMap(map, i)
    THEN (CHOOSE e \in DOMAIN map : map[e] = i /\ \A f \in DOMAIN map : map[f] = i => e <= f) - 1
    ELSE -1
\* engine_to_frame_index_map[e]; -1 stands for IndexError
ToSequence(map, e) == IF e >= 0 /\ e < Len(map) THEN map[e + 1] ELSE -1

(* ---------------------------- persistence ----------------------------- *)

\* event_handlers.save_playback_state; final = -1 stands for final_time_ms=None.
\* Yields the table after the call and the effect it had.
save_playback_state(dbv, exiting, hasEng, eng, book, file, final, periodic) ==
    IF (exiting /\ periodic) \/ (~hasEng /\ final = -1 /\ ~exiting)
    THEN [db |-> dbv, fx |-> <<>>]
    ELSE LET t == IF final # -1 THEN final ELSE IF hasEng THEN get_time(eng) ELSE 0
         IN [db |-> [dbv EXCEPT ![book] = [file |-> file, pos |-> t]],
             fx |-> <<Fx("save", book, file, t)>>]

\* a load_book_data whose index check resets the index only
load_book_data_keeps_position(dbv, rewind, b) ==
    LET st == dbv[b]
        durs == Catalog(b)
        has == st # NoState
        fi0 == IF has THEN st.file ELSE 0
        p0 == IF has THEN st.pos ELSE 0
        p1 == IF has /\ rewind > 0 /\ p0 > 0 THEN Max(0, p0 - rewind) ELSE p0
        inRange == fi0 >= 0 /\ fi0 < Len(durs)
        fi == IF inRange THEN fi0 ELSE 0
    IN [durs |-> durs, cur |-> fi, spos |-> p1,
        dur |-> durs[fi + 1], fx |-> <<Fx("load_state", b, fi0, p0)>>]

\* an UPDATE that flips books.is_finished
set_book_finished_toggled(fin, book, is_finished) == [fin EXCEPT ![book] = ~@]

\* BookRepository.set_book_finished: UPDATE books SET is_finished = ? WHERE id = ?
set_book_finished(fin, book, is_finished) == [fin EXCEPT ![book] = is_finished]

\* a load that hands on the persisted position as it is
load_book_data_unrewound(dbv, rewind, b) ==
    LET st == dbv[b]
        durs == Catalog(b)
        has == st # NoState
        fi0 == IF has THEN st.file ELSE 0
        p0 == IF has THEN st.pos ELSE 0
        inRange == fi0 >= 0 /\ fi0 < Len(durs)
        fi == IF inRange THEN fi0 ELSE 0
    IN [durs |-> durs, cur |-> fi, spos |-> IF inRange THEN p0 ELSE 0,
        dur |-> durs[fi + 1], fx |-> <<Fx("load_state", b, fi0, p0)>>]

\* BookLoader.load_book_data for a book that has files
load_book_data(dbv, rewind, b) ==
    LET st == dbv[b]
        durs == Catalog(b)
        has == st # NoState
        fi0 == IF has THEN st.file ELSE 0
        p0 == IF has THEN st.pos ELSE 0
        p1 == IF has /\ rewind > 0 /\ p0 > 0 THEN Max(0, p0 - rewind) ELSE p0
        inRange == fi0 >= 0 /\ fi0 < Len(durs)
        fi == IF inRange THEN fi0 ELSE 0
    IN [durs |-> durs, cur |-> fi, spos |-> IF inRange THEN p1 ELSE 0,
        dur |-> durs[fi + 1], fx |-> <<Fx("load_state", b, fi0, p0)>>]

\* a failure branch that goes on as if the playlist had loaded
after_load_failure_as_success(playing, uit) == [playing |-> TRUE, uit |-> TRUE]

\* start_playback's else branch: frame.is_playing = False, the UI timer is not touched
after_load_failure(playing, uit) == [playing |-> FALSE, uit |-> uit]

\* BookLoader.start_playback after its is_exiting / engine guard; ok = the
\* mpv commands of load_playlist succeed
start_playback(durs, cur, spos, eng, playing, uit, ok) ==
    LET map == BuildIndexMap(Len(durs))
        present == InMap(map, cur)
        idx == IF present THEN ToEngine(map, cur) ELSE 0
        cur2 == IF present THEN cur ELSE map[1]
        spos2 == IF present THEN spos ELSE 0
        loadedEng == play(load_playlist(eng, MediaDurations(durs), idx, spos2))
    IN IF Len(durs) = 0
       THEN [map |-> map, cur |-> cur, spos |-> spos, engine |-> eng, playing |-> playing,
             uit |-> uit, posts |-> <<Ev("on_escape", 0)>>,
             fx |-> <<Fx("msg_no_files", 0, 0, 0), Fx("post_on_escape", 0, 0, 0)>>]
       ELSE IF ok /\ load_playlist_ok(durs, idx)
       THEN [map |-> map, cur |-> cur2, spos |-> spos2, engine |-> loadedEng,
             playing |-> TRUE, uit |-> TRUE, posts |-> FileChangedEvents(eng, loadedEng),
             fx |-> <<Fx("eng_load_playlist", idx, spos2, Len(durs)), Fx("eng_play", 0, 0, 0)>>]
       ELSE [map |-> map, cur |-> cur2, spos |-> spos2,
             engine |-> [eng EXCEPT !.initial = FALSE, !.pending = spos2],
             playing |-> after_load_failure(playing, uit).playing,
             uit |-> after_load_failure(playing, uit).uit, posts |-> <<Ev("on_escape", 0)>>,
             fx |-> <<Fx("eng_load_playlist", idx, spos2, Len(durs)),
                      Fx("msg_load_failed", 0, 0, 0), Fx("post_on_escape", 0, 0, 0)>>]

(* ------------------------------ settings ------------------------------ *)

EndOfBookActions == {"stop", "loop", "close"}
\* an end-of-book action that does not look at the setting
get_end_of_book_action_ignored == "loop"
\* playback_logic._get_end_of_book_action
get_end_of_book_action == IF settings.end_of_book_action \in EndOfBookActions
                          THEN settings.end_of_book_action ELSE "stop"
\* playback_logic._should_resume_on_jump
should_resume_on_jump == settings.resume_on_jump
\* nvda_controller.get_pause_on_dialog_setting
get_pause_on_dialog_setting == settings.pause_on_dialog

SessionSettings ==
    [end_of_book_action : EndOfBookActions, resume_on_jump : BOOLEAN,
     smart_resume_threshold_sec : {300}, smart_resume_rewind_ms : {10000},
     resume_rewind_ms : {0}, pause_on_dialog : {TRUE}]

SleepIdle == [running |-> FALSE, action_key |-> "none", os_action_mode |-> "silent",
              end_time |-> -1, fire_at |-> -1]
\* was_playing: DialogManager.was_playing_before_dialog, for the dialogs of the player
NoDialog == [state |-> "none", action |-> "none", remaining |-> 0, was_playing |-> FALSE]

(* --------------------------- duration worker -------------------------- *)
\* worker.pc        idle / map (consuming executor.map results) / done
\* worker.n         len(tasks): the files of the book whose stored duration is 0
\* worker.pattern   which probes succeed
\* worker.i         the task whose result is consumed next (tasks are 1..n)
\* worker.updates   the local list 'updates' (task ids; the duration is not used)
\* worker.flushed   the argument of every update_file_duration_batch call so far
\* worker.tx        the worker is inside DatabaseManager.update_file_duration_batch:
\*                  it holds db_lock and its executemany transaction is open

TaskCounts == {0, 1, 100, 101, 250}
ProbePatterns == {"all", "none", "alternate", "first_fails"}

WorkerIdle == [pc |-> "idle", n |-> 0, pattern |-> "all", i |-> 1,
               updates |-> <<>>, flushed |-> <<>>, tx |-> FALSE]

\* _get_file_duration_task: TRUE for a (db_id, duration) tuple, FALSE for None
get_file_duration_task(pattern, i) ==
    CASE pattern = "all" -> TRUE
      [] pattern = "none" -> FALSE
      [] pattern = "alternate" -> i % 2 = 1
      [] OTHER -> i # 1

\* a worker that leaves every result to the flush after the loop
flush_due_never(updates) == FALSE

\* len(updates) >= batch_size
flush_due(updates) == Len(updates) >= batch_size

\* BookRepository.update_file_duration_batch on an open connection: one
\* executemany transaction per call, nothing for an empty list
update_file_duration_batch(flushed, updates) ==
    IF updates = <<>> THEN flushed ELSE Append(flushed, updates)

\* DatabaseManager.db_lock (an RLock) is free unless the worker is inside
\* update_file_duration_batch; every method of DatabaseManager that writes
\* takes it, the methods of BookRepository and a bare 'with conn:' do not
db_lock_free == ~worker.tx

\* a handler's writes to the catalog, by the way they are made:
\* DatabaseManager.save_playback_state under db_lock ("save"), and
\* play_next_file's db_manager.book_repo.set_book_finished straight on the
\* shared connection ("mark_finished")
LockedWrites == {"save"}
UnlockedWrites == {"mark_finished"}

\* a handler whose first write to the catalog takes db_lock runs only while
\* the lock is free; one that starts with an unlocked write is not held back
LockedWriteWaits ==
    LET w == {i \in DOMAIN fx' : fx'[i].k \in LockedWrites \cup UnlockedWrites}
    IN (w # {} /\ \E i \in w : fx'[i].k \in LockedWrites /\ \A j \in w : i <= j)
          => db_lock_free

(* -------------------------------- Init -------------------------------- *)

\* what the playback_state table may hold for the first book when the player opens
SavedStates == {NoState, [file |-> 1, pos |-> 12000], [file |-> 7, pos |-> 5000]}

\* PlayerFrame.__init__ ending with load_book_data, for book b0; the
\* playback_state table holds one of States for b0 and one of Others for
\* every other book
InitSession(b0) ==
    /\ book_id = b0
    /\ engine_to_frame_index_map = <<>>
    /\ is_playing = FALSE
    /\ is_exiting = FALSE
    /\ has_engine = TRUE
    /\ ui_timer = FALSE
    /\ save_state_counter = 0
    /\ last_pause_time = 0
    /\ loop_point_a_ms = -1
    /\ is_file_looping = FALSE
    /\ worker = WorkerIdle
    /\ engine = EngineNew
    /\ evq = <<>>
    /\ later = <<>>
    /\ finished = [b \in Books |-> FALSE]
    /\ now = 1
    /\ sleep = SleepIdle
    /\ dlg = NoDialog
    /\ started = FALSE
    /\ op = Op("init", 0)
    /\ fx = <<>>

InitLibrary(S, States, Others, b0) ==
    /\ settings \in S
    /\ \E st \in States, other \in Others :
        /\ db = [b \in Books \cup {MixedBook, LongBook, -1} |->
                    IF b = b0 THEN st ELSE IF b \in Books THEN other ELSE NoState]
        /\ LET ld == load_book_data(db, settings.resume_rewind_ms, b0)
           IN /\ book_file_durations = ld.durs
              /\ current_file_index = ld.cur
              /\ current_file_duration_ms = ld.dur
              /\ start_pos_ms = ld.spos
    /\ InitSession(b0)

InitBook(S, States, b0) == InitLibrary(S, States, {NoState}, b0)

InitWith(S, States) == InitBook(S, States, 1)

Init == InitWith(SessionSettings, SavedStates)

(* ------------------------- session operations ------------------------- *)

\* LibraryFrame.start_playback -> PlayerFrame.start_playback, right after construction
StartPlayback(ok) ==
    /\ ~started
    /\ started' = TRUE
    /\ op' = Op("start_playback", 0)
    /\ IF is_exiting \/ ~has_engine
       THEN /\ fx' = <<>>
            /\ UNCHANGED <<engine_to_frame_index_map, current_file_index, start_pos_ms, engine,
                           is_playing, ui_timer, evq>>
       ELSE LET r == start_playback(book_file_durations, current_file_index, start_pos_ms,
                                    engine, is_playing, ui_timer, ok)
            IN /\ Len(evq) + Len(r.posts) <= MaxQueue
               /\ engine_to_frame_index_map' = r.map
               /\ current_file_index' = r.cur
               /\ start_pos_ms' = r.spos
               /\ engine' = r.engine
               /\ is_playing' = r.playing
               /\ ui_timer' = r.uit
               /\ evq' = evq \o r.posts
               /\ fx' = r.fx
    /\ UNCHANGED <<book_id, book_file_durations, current_file_duration_ms, is_exiting,
                   has_engine, save_state_counter, last_pause_time, later, db, finished,
                   settings, worker, loop_point_a_ms, is_file_looping, now, sleep, dlg>>

\* a toggle whose Smart Resume rewinds from the position playback was paused
\* at, also after the near-end reset
toggle_play_pause_rewinds_from_pause(eng, map, cur, dur, lpt, playing, uit) ==
    LET nearEnd == dur > 0 /\ (dur - get_time(eng)) < NearEndMs
        e2 == IF nearEnd THEN set_time(eng, 0) ELSE eng
        fx2 == IF nearEnd THEN <<Fx("eng_set_time", 0, 0, 0)>> ELSE <<>>
        rewind == settings.smart_resume_rewind_ms
        smart == lpt > 0 /\ (now - lpt) > settings.smart_resume_threshold_sec /\ rewind > 0
        newPos == Max(0, get_time(eng) - rewind)
        e3 == IF smart THEN set_time(e2, newPos) ELSE e2
        fx3 == IF smart THEN <<Fx("eng_set_time", newPos, 0, 0),
                               Fx("speak_smart_resume", rewind, 0, 0)>> ELSE <<>>
    IN IF engine_is_playing(eng)
       THEN [engine |-> pause(eng), playing |-> FALSE, uit |-> FALSE, lpt |-> now,
             fx |-> <<Fx("eng_pause", 0, 0, 0), Fx("speak_paused", 0, 0, 0)>>]
       ELSE [engine |-> play(e3), playing |-> TRUE, uit |-> TRUE, lpt |-> 0,
             fx |-> fx2 \o fx3 \o <<Fx("eng_play", 0, 0, 0), Fx("speak_playing", 0, 0, 0)>>]

\* playback_logic.toggle_play_pause, as a value: the engine, flags and effects after it
toggle_play_pause(eng, map, cur, dur, lpt, playing, uit) ==
    LET idx == ToEngine(map, cur)
        reload == get_length(eng) = 0
        e1 == IF reload /\ idx # -1 THEN set_time(playlist_jump(eng, idx, 0), 0) ELSE eng
        fx1 == IF reload /\ idx # -1
               THEN <<Fx("eng_playlist_jump", idx, 0, 0), Fx("eng_set_time", 0, 0, 0)>> ELSE <<>>
        nearEnd == dur > 0 /\ (dur - get_time(e1)) < NearEndMs
        e2 == IF nearEnd THEN set_time(e1, 0) ELSE e1
        fx2 == IF nearEnd THEN <<Fx("eng_set_time", 0, 0, 0)>> ELSE <<>>
        rewind == settings.smart_resume_rewind_ms
        smart == lpt > 0 /\ (now - lpt) > settings.smart_resume_threshold_sec /\ rewind > 0
        newPos == Max(0, get_time(e2) - rewind)
        e3 == IF smart THEN set_time(e2, newPos) ELSE e2
        fx3 == IF smart THEN <<Fx("eng_set_time", newPos, 0, 0),
                               Fx("speak_smart_resume", rewind, 0, 0)>> ELSE <<>>
    IN IF engine_is_playing(e1)
       THEN [engine |-> pause(e1), playing |-> FALSE, uit |-> FALSE, lpt |-> now,
             fx |-> fx1 \o <<Fx("eng_pause", 0, 0, 0), Fx("speak_paused", 0, 0, 0)>>]
       ELSE [engine |-> play(e3), playing |-> TRUE, uit |-> TRUE, lpt |-> 0,
             fx |-> fx1 \o fx2 \o fx3 \o <<Fx("eng_play", 0, 0, 0), Fx("speak_playing", 0, 0, 0)>>]

\* the part of a handler that runs toggle_play_pause(frame)
DoToggle ==
    IF ~has_engine
    THEN /\ fx' = <<>>
         /\ UNCHANGED <<engine, is_playing, ui_timer, last_pause_time, evq>>
    ELSE LET r == toggle_play_pause(engine, engine_to_frame_index_map, current_file_index,
                                    current_file_duration_ms, last_pause_time, is_playing,
                                    ui_timer)
             posts == FileChangedEvents(engine, r.engine)
         IN /\ Len(evq) + Len(posts) <= MaxQueue
            /\ engine' = r.engine
            /\ is_playing' = r.playing
            /\ ui_timer' = r.uit
            /\ last_pause_time' = r.lpt
            /\ evq' = evq \o posts
            /\ fx' = r.fx

\* Space / media key
TogglePlayPause ==
    /\ started
    /\ dlg.state # "open"
    /\ op' = Op("toggle_play_pause", 0)
    /\ DoToggle
    /\ UNCHANGED <<book_id, book_file_durations, current_file_duration_ms, current_file_index,
                   engine_to_frame_index_map, is_exiting, has_engine, save_state_counter,
                   start_pos_ms, later, db, finished, settings, worker, loop_point_a_ms, is_file_looping, now, sleep, dlg, started>>

(* ----------------------------- SleepTimer ----------------------------- *)

OS_ACTION_KEYS == {"sleep", "hibernate", "shutdown"}
\* SleepTimer.is_active
is_active(s) == s.running \/ s.end_time # -1
\* a remaining time that does not look at the clock
get_remaining_seconds_unclocked(s) ==
    IF ~is_active(s) \/ s.end_time = -1 THEN -1 ELSE Max(0, s.end_time)

\* SleepTimer.get_remaining_seconds; -1 stands for None
get_remaining_seconds(s) ==
    IF ~is_active(s) \/ s.end_time = -1 THEN -1 ELSE Max(0, s.end_time - now)
\* a cancel that clears the fields and leaves the wx.Timer running
cancel_timer_fields_only(s) ==
    IF ~is_active(s) THEN s
    ELSE [s EXCEPT !.action_key = "none", !.os_action_mode = "none", !.end_time = -1]
\* a cancel without the is_active() test: it clears the fields of an idle service too
cancel_timer_unguarded(s) ==
    [s EXCEPT !.running = FALSE, !.fire_at = -1, !.action_key = "none",
              !.os_action_mode = "none", !.end_time = -1]
\* SleepTimer.cancel_timer: the fields after the call
cancel_timer(s) ==
    IF ~is_active(s) THEN s
    ELSE [s EXCEPT !.running = FALSE, !.fire_at = -1, !.action_key = "none",
                   !.os_action_mode = "none", !.end_time = -1]

(* ------------------------ playback_logic handlers --------------------- *)

\* an end-of-playlist test that is off by one
at_last_file_past(cur, n) == cur + 1 > n
\* play_next_file's test for the end of the playlist, play_prev_file's for its start
at_last_file(cur, n) == cur + 1 >= n
at_first_file(cur) == cur <= 0

\* appends to a bounded queue
Push(q, items) == q \o items

\* playback_logic.play_next_file(frame, manual); lq = the CallLater timers still
\* outstanding when it runs
DoPlayNextFile(manual, lq) ==
    IF ~has_engine
    THEN /\ fx' = <<>>
         /\ later' = lq
         /\ UNCHANGED <<current_file_index, engine, is_playing, ui_timer, last_pause_time,
                        evq, db, finished>>
    ELSE IF at_last_file(current_file_index, NumFiles)
    THEN IF manual
         THEN /\ fx' = <<Fx("speak_end_of_book", 0, 0, 0)>>
              /\ later' = lq
              /\ UNCHANGED <<current_file_index, engine, is_playing, ui_timer, last_pause_time,
                             evq, db, finished>>
         ELSE LET action == get_end_of_book_action
                  e1 == pause(set_time(play(playlist_jump(engine, 0, 0)), 0))
                  sv == save_playback_state(db, is_exiting, has_engine, e1, book_id, 0, 0, FALSE)
                  posts == FileChangedEvents(engine, e1)
                  resume == ~is_playing /\ should_resume_on_jump
                  sched == IF action = "loop" /\ resume THEN <<Ev("toggle_play_pause", 0)>>
                           ELSE IF action = "close" THEN <<Ev("on_escape", 0)>>
                           ELSE <<>>
              IN /\ Len(evq) + Len(posts) <= MaxQueue
                 /\ Len(lq) + Len(sched) <= MaxQueue
                 /\ finished' = set_book_finished(finished, book_id, TRUE)
                 /\ current_file_index' = 0
                 /\ engine' = e1
                 /\ db' = sv.db
                 /\ evq' = Push(evq, posts)
                 /\ later' = Push(lq, sched)
                 /\ is_playing' = IF action = "stop" THEN FALSE ELSE is_playing
                 /\ ui_timer' = IF action = "stop" THEN FALSE ELSE ui_timer
                 /\ last_pause_time' = IF action = "stop" THEN 0 ELSE last_pause_time
                 /\ fx' = <<Fx("mark_finished", book_id, 0, 0),
                            Fx("eng_playlist_jump", 0, 0, 0), Fx("eng_play", 0, 0, 0),
                            Fx("eng_set_time", 0, 0, 0), Fx("eng_pause", 0, 0, 0)>>
                          \o sv.fx
                          \o (IF action = "loop"
                              THEN <<Fx("speak_end_of_book_looping", 0, 0, 0)>>
                                   \o (IF resume THEN <<Fx("call_later_toggle", 0, 0, 0)>> ELSE <<>>)
                              ELSE IF action = "close"
                              THEN <<Fx("speak_end_of_book_closing", 0, 0, 0),
                                     Fx("call_later_on_escape", 0, 0, 0)>>
                              ELSE <<Fx("speak_end_of_book", 0, 0, 0)>>)
    ELSE LET e1 == playlist_next(engine)
             posts == FileChangedEvents(engine, e1)
             sched == IF ~is_playing /\ should_resume_on_jump
                      THEN <<Ev("toggle_play_pause", 0)>> ELSE <<>>
         IN /\ Len(evq) + Len(posts) <= MaxQueue
            /\ Len(lq) + Len(sched) <= MaxQueue
            /\ engine' = e1
            /\ evq' = Push(evq, posts)
            /\ later' = Push(lq, sched)
            /\ fx' = <<Fx("eng_playlist_next", 0, 0, 0)>>
                     \o (IF sched # <<>> THEN <<Fx("call_later_toggle", 0, 0, 0)>> ELSE <<>>)
            /\ UNCHANGED <<current_file_index, is_playing, ui_timer, last_pause_time, db,
                           finished>>

\* PageDown / media "next track": play_next_file(frame, manual=True)
PlayNextFileManual ==
    /\ started
    /\ dlg.state # "open"
    /\ op' = Op("play_next_file", 1)
    /\ DoPlayNextFile(TRUE, later)
    /\ UNCHANGED <<book_id, book_file_durations, current_file_duration_ms,
                   engine_to_frame_index_map, is_exiting, has_engine, save_state_counter,
                   start_pos_ms, settings, worker, loop_point_a_ms, is_file_looping, now, sleep, dlg, started>>

\* playback_logic.play_prev_file: PageUp / media "previous track"
PlayPrevFile ==
    /\ started
    /\ dlg.state # "open"
    /\ op' = Op("play_prev_file", 0)
    /\ IF ~has_engine
       THEN fx' = <<>> /\ UNCHANGED <<engine, evq, later>>
       ELSE IF at_first_file(current_file_index)
       THEN fx' = <<Fx("speak_start_of_book", 0, 0, 0)>> /\ UNCHANGED <<engine, evq, later>>
       ELSE LET e1 == playlist_previous(engine)
                posts == FileChangedEvents(engine, e1)
                sched == IF ~is_playing /\ should_resume_on_jump
                         THEN <<Ev("toggle_play_pause", 0)>> ELSE <<>>
            IN /\ Len(evq) + Len(posts) <= MaxQueue
               /\ Len(later) + Len(sched) <= MaxQueue
               /\ engine' = e1
               /\ evq' = Push(evq, posts)
               /\ later' = Push(later, sched)
               /\ fx' = <<Fx("eng_playlist_previous", 0, 0, 0)>>
                        \o (IF sched # <<>> THEN <<Fx("call_later_toggle", 0, 0, 0)>> ELSE <<>>)
    /\ UNCHANGED <<book_id, book_file_durations, current_file_duration_ms, current_file_index,
                   engine_to_frame_index_map, is_playing, is_exiting, has_engine, ui_timer,
                   save_state_counter, last_pause_time, start_pos_ms, db, finished, settings, worker, loop_point_a_ms, is_file_looping,
                   now, sleep, dlg, started>>

\* playback_logic.stop_playback: Shift+Space (on_key_down returns early without an engine)
StopPlayback ==
    /\ started
    /\ dlg.state # "open"
    /\ has_engine
    /\ op' = Op("stop_playback", 0)
    /\ LET e1 == pause(set_time(play(engine), 0))
           sv == save_playback_state(db, is_exiting, has_engine, e1, book_id,
                                     current_file_index, 0, FALSE)
       IN /\ engine' = e1
          /\ db' = sv.db
          /\ fx' = <<Fx("eng_play", 0, 0, 0), Fx("eng_set_time", 0, 0, 0),
                     Fx("eng_pause", 0, 0, 0)>> \o sv.fx \o <<Fx("speak_stopped", 0, 0, 0)>>
    /\ is_playing' = FALSE
    /\ ui_timer' = FALSE
    /\ last_pause_time' = 0
    /\ UNCHANGED <<book_id, book_file_durations, current_file_duration_ms, current_file_index,
                   engine_to_frame_index_map, is_exiting, has_engine, save_state_counter,
                   start_pos_ms, evq, later, finished, settings, worker, loop_point_a_ms, is_file_looping, now, sleep, dlg, started>>
    /\ LockedWriteWaits

(* ----------------------------- navigation ----------------------------- *)

\* file indices and positions a bookmark row may hold
BookmarkFiles == {-1, 0, 1, 2}
BookmarkPositions == {5000}

\* jump_to_bookmark's resolution of data['file_index'] to an engine index: the range
\* test, then list.index with its ValueError
NonExistent == -2
Missing == -1
\* a resolution that falls back to the first engine entry
bookmark_target_or_first(map, n, file_index) ==
    IF ~(0 <= file_index /\ file_index < n) THEN 0
    ELSE IF ToEngine(map, file_index) = -1 THEN 0
    ELSE ToEngine(map, file_index)
\* the resolution jump_to_bookmark makes
bookmark_target(map, n, file_index) ==
    IF ~(0 <= file_index /\ file_index < n) THEN NonExistent
    ELSE IF ToEngine(map, file_index) = -1 THEN Missing
    ELSE ToEngine(map, file_index)

\* navigation.jump_to_bookmark(frame, data), as a value: the engine after it,
\* the events its change of the playlist position posts, and its effects
jump_to_bookmark(eng, map, n, file_index, position_ms) ==
    LET target == bookmark_target(map, n, file_index)
        same == target = get_current_file_index(eng)
        e1 == IF same THEN set_time(eng, position_ms)
              ELSE playlist_jump(eng, target, position_ms)
    IN IF target = NonExistent
       THEN [engine |-> eng, posts |-> <<>>,
             fx |-> <<Fx("speak_bookmark_file_nonexistent", 0, 0, 0)>>]
       ELSE IF target = Missing
       THEN [engine |-> eng, posts |-> <<>>,
             fx |-> <<Fx("speak_bookmark_file_missing", 0, 0, 0)>>]
       ELSE [engine |-> e1, posts |-> FileChangedEvents(eng, e1),
             fx |-> IF same THEN <<Fx("eng_set_time", position_ms, 0, 0)>>
                    ELSE <<Fx("eng_playlist_jump", target, position_ms, 0)>>
                         \o (IF playlist_jump_ok(eng, target) THEN <<>>
                             ELSE <<Fx("speak_bookmark_jump_failed", 0, 0, 0)>>)]

\* goto_next_bookmark / goto_prev_bookmark -> jump_to_bookmark(frame, bm)
JumpToBookmark(file_index, position_ms) ==
    /\ started
    /\ dlg.state # "open"
    /\ op' = Op("jump_to_bookmark", file_index)
    /\ IF ~has_engine
       THEN fx' = <<>> /\ UNCHANGED <<engine, evq>>
       ELSE LET r == jump_to_bookmark(engine, engine_to_frame_index_map, NumFiles,
                                      file_index, position_ms)
            IN /\ Len(evq) + Len(r.posts) <= MaxQueue
               /\ engine' = r.engine
               /\ evq' = Push(evq, r.posts)
               /\ fx' = r.fx
    /\ UNCHANGED <<book_id, book_file_durations, current_file_duration_ms, current_file_index,
                   engine_to_frame_index_map, is_playing, is_exiting, has_engine, ui_timer,
                   save_state_counter, last_pause_time, start_pos_ms, later, db, finished,
                   settings, worker, loop_point_a_ms, is_file_looping, now, sleep, dlg, started>>

(* --------------------------- DialogManager ---------------------------- *)

\* DialogManager._dialog_entry: playback is paused for the dialog when the
\* 'Pause on Dialog' setting is on; last_pause_time is left alone
dialog_entry(eng, playing, uit) ==
    IF get_pause_on_dialog_setting /\ playing
    THEN [engine |-> pause(eng), playing |-> FALSE, uit |-> FALSE, was |-> playing,
          fx |-> <<Fx("eng_pause", 0, 0, 0)>>]
    ELSE [engine |-> eng, playing |-> playing, uit |-> uit, was |-> playing, fx |-> <<>>]

\* a dialog exit that resumes the engine and leaves the UI timer stopped
dialog_exit_timer_left_stopped(eng, playing, uit, was_playing_before) ==
    IF get_pause_on_dialog_setting /\ was_playing_before /\ ~playing /\ ~engine_is_playing(eng)
    THEN [engine |-> play(eng), playing |-> TRUE, uit |-> uit,
          fx |-> <<Fx("eng_play", 0, 0, 0)>>]
    ELSE [engine |-> eng, playing |-> playing, uit |-> uit, fx |-> <<>>]

\* DialogManager._dialog_exit(was_playing_before): playback paused for the
\* dialog goes on with engine.play()
dialog_exit(eng, playing, uit, was_playing_before) ==
    IF get_pause_on_dialog_setting /\ was_playing_before
    THEN IF playing
         THEN [engine |-> eng, playing |-> playing, uit |-> TRUE, fx |-> <<>>]
         ELSE IF ~engine_is_playing(eng)
         THEN [engine |-> play(eng), playing |-> TRUE, uit |-> TRUE,
               fx |-> <<Fx("eng_play", 0, 0, 0)>>]
         ELSE [engine |-> eng, playing |-> playing, uit |-> uit, fx |-> <<>>]
    ELSE [engine |-> eng, playing |-> playing, uit |-> uit, fx |-> <<>>]

\* DialogManager.on_show_bookmarks up to ShowModal (Ctrl+B; on_key_down needs an engine)
ShowBookmarksOpen ==
    /\ started
    /\ dlg.state # "open"
    /\ has_engine
    /\ op' = Op("on_show_bookmarks", 0)
    /\ LET r == dialog_entry(engine, is_playing, ui_timer)
       IN /\ engine' = r.engine
          /\ is_playing' = r.playing
          /\ ui_timer' = r.uit
          /\ dlg' = [state |-> "open", action |-> "bookmarks", remaining |-> 0,
                     was_playing |-> r.was]
          /\ fx' = r.fx
    /\ UNCHANGED <<book_id, book_file_durations, current_file_duration_ms, current_file_index,
                   engine_to_frame_index_map, is_exiting, has_engine, save_state_counter,
                   last_pause_time, start_pos_ms, evq, later, db, finished, settings, worker,
                   loop_point_a_ms, is_file_looping, now, sleep, started>>

\* DialogManager.on_show_bookmarks after ShowModal has returned: wx.ID_OK with
\* the bookmark (file_index, position_ms) selected, or the dialog cancelled
ShowBookmarksClose(ok, file_index, position_ms) ==
    /\ dlg.state = "open"
    /\ dlg.action = "bookmarks"
    /\ dlg' = NoDialog
    /\ op' = Op("on_show_bookmarks_closed", IF ok THEN 1 ELSE 0)
    /\ LET was_playing == dlg.was_playing
           j == IF ok /\ has_engine
                THEN jump_to_bookmark(engine, engine_to_frame_index_map, NumFiles,
                                      file_index, position_ms)
                ELSE [engine |-> engine, posts |-> <<>>, fx |-> <<>>]
           sched == IF ok /\ ~was_playing /\ should_resume_on_jump
                    THEN <<Ev("toggle_play_pause", 0)>> ELSE <<>>
           x == IF has_engine THEN dialog_exit(j.engine, is_playing, ui_timer, was_playing)
                ELSE [engine |-> engine, playing |-> is_playing, uit |-> ui_timer, fx |-> <<>>]
       IN /\ Len(evq) + Len(j.posts) <= MaxQueue
          /\ Len(later) + Len(sched) <= MaxQueue
          /\ engine' = x.engine
          /\ is_playing' = x.playing
          /\ ui_timer' = x.uit
          /\ evq' = Push(evq, j.posts)
          /\ later' = Push(later, sched)
          /\ fx' = (IF ok THEN <<Fx("speak_jumping_to_bookmark", 0, 0, 0)>> ELSE <<>>)
                   \o j.fx
                   \o (IF sched # <<>> THEN <<Fx("call_later_toggle", 0, 0, 0)>> ELSE <<>>)
                   \o x.fx
    /\ UNCHANGED <<book_id, book_file_durations, current_file_duration_ms, current_file_index,
                   engine_to_frame_index_map, is_exiting, has_engine, save_state_counter,
                   last_pause_time, start_pos_ms, db, finished, settings, worker,
                   loop_point_a_ms, is_file_looping, now, sleep, started>>

(* ------------------------------- seeking ------------------------------ *)

\* the configured seek steps (seek_backward_ms, seek_forward_ms), as signed offsets
SeekAmounts == {-10000, 30000}

\* a clamp to the end of the file instead of one second before it
seek_clamp_to_duration(target_ms, dur) ==
    IF dur > 0 THEN Max(0, Min(Max(0, target_ms), dur)) ELSE Max(0, target_ms)

\* seek_absolute's new_time
seek_clamp(target_ms, dur) ==
    IF dur > 0 THEN Max(0, Min(Max(0, target_ms), dur - NearEndMs)) ELSE Max(0, target_ms)

\* seek_logic.seek_absolute
SeekAbsolute(target_ms) ==
    IF ~has_engine
    THEN fx' = <<>> /\ UNCHANGED engine
    ELSE LET new_time == seek_clamp(target_ms, current_file_duration_ms)
         IN /\ engine' = set_time(engine, new_time)
            /\ fx' = <<Fx("seek_absolute", target_ms, current_file_duration_ms, 0),
                       Fx("eng_set_time", new_time, 0, 0)>>

seekFrame == <<frameVars, evq, later, db, finished, settings, worker, now, sleep, dlg, started>>

\* seek_logic.seek_relative (Left / Right, with or without Ctrl)
SeekRelative(ms) ==
    /\ started
    /\ dlg.state # "open"
    /\ op' = Op("seek_relative", ms)
    /\ IF ~has_engine
       THEN fx' = <<>> /\ UNCHANGED engine
       ELSE SeekAbsolute(get_time(engine) + ms)
    /\ UNCHANGED seekFrame

\* seek_logic.restart_file (Home, Backspace)
RestartFile ==
    /\ started
    /\ dlg.state # "open"
    /\ op' = Op("restart_file", 0)
    /\ SeekAbsolute(0)
    /\ UNCHANGED seekFrame

\* controls.on_key_down, End
SeekToEnd ==
    /\ started
    /\ dlg.state # "open"
    /\ op' = Op("seek_to_end", 0)
    /\ SeekAbsolute(Max(0, current_file_duration_ms - NearEndMs))
    /\ UNCHANGED seekFrame

\* seek_logic.seek_to_middle (Ctrl+Backspace)
SeekToMiddle ==
    /\ started
    /\ dlg.state # "open"
    /\ op' = Op("seek_to_middle", 0)
    /\ IF current_file_duration_ms <= 0
       THEN fx' = <<Fx("speak_duration_unknown", 0, 0, 0)>> /\ UNCHANGED engine
       ELSE SeekAbsolute(current_file_duration_ms \div 2)
    /\ UNCHANGED seekFrame

\* seek_logic.seek_to_end_minus_30 (Shift+Backspace)
SeekToEndMinus30 ==
    /\ started
    /\ dlg.state # "open"
    /\ op' = Op("seek_to_end_minus_30", 0)
    /\ IF current_file_duration_ms <= 0
       THEN fx' = <<Fx("speak_duration_unknown", 0, 0, 0)>> /\ UNCHANGED engine
       ELSE SeekAbsolute(current_file_duration_ms - 30000)
    /\ UNCHANGED seekFrame

(* ------------------------------ A-B loop ------------------------------ *)

set_loop_a(e, t) == [e EXCEPT !.ab_loop_a = t]
set_loop_b(e, t) == [e EXCEPT !.ab_loop_b = t]
engine_clear_loop(e) == [e EXCEPT !.ab_loop_a = -1, !.ab_loop_b = -1]

loopFrame == <<book_id, book_file_durations, current_file_duration_ms, current_file_index,
               engine_to_frame_index_map, is_playing, is_exiting, has_engine, ui_timer,
               save_state_counter, last_pause_time, start_pos_ms, evq, later, db, finished,
               settings, worker, now, sleep, dlg, started, is_file_looping>>

\* loop_logic.set_loop_start (S)
SetLoopStart ==
    /\ started
    /\ dlg.state # "open"
    /\ op' = Op("set_loop_start", 0)
    /\ IF ~has_engine
       THEN fx' = <<>> /\ UNCHANGED loop_point_a_ms
       ELSE /\ loop_point_a_ms' = get_time(engine)
            /\ fx' = <<Fx("speak_loop_start_set", 0, 0, 0)>>
    /\ UNCHANGED <<loopFrame, engine>>

\* a set_loop_end that only asks for point A to be set
loop_end_rejected_unset_only(point_a_ms, point_b_ms) == point_a_ms = -1

\* set_loop_end's two refusals
loop_end_rejected(point_a_ms, point_b_ms) == point_a_ms = -1 \/ point_b_ms < point_a_ms

\* loop_logic.set_loop_end (A)
SetLoopEnd ==
    /\ started
    /\ dlg.state # "open"
    /\ op' = Op("set_loop_end", 0)
    /\ IF ~has_engine
       THEN fx' = <<>> /\ UNCHANGED engine
       ELSE LET point_a_ms == loop_point_a_ms
                point_b_ms == get_time(engine)
            IN IF loop_end_rejected(point_a_ms, point_b_ms)
               THEN /\ fx' = <<Fx(IF point_a_ms = -1 THEN "speak_loop_start_not_set"
                                  ELSE "speak_loop_end_before_start", 0, 0, 0)>>
                    /\ UNCHANGED engine
               ELSE /\ engine' = set_time(set_loop_b(set_loop_a(engine, point_a_ms),
                                                     point_b_ms), point_a_ms)
                    /\ fx' = <<Fx("eng_set_loop_a", point_a_ms, 0, 0),
                               Fx("eng_set_loop_b", point_b_ms, 0, 0),
                               Fx("eng_set_time", point_a_ms, 0, 0),
                               Fx("speak_loop_activated", 0, 0, 0)>>
    /\ UNCHANGED <<loopFrame, loop_point_a_ms>>

\* loop_logic.clear_loop (D)
ClearLoop ==
    /\ started
    /\ dlg.state # "open"
    /\ op' = Op("clear_loop", 0)
    /\ IF ~has_engine
       THEN fx' = <<>> /\ UNCHANGED <<engine, loop_point_a_ms>>
       ELSE /\ engine' = engine_clear_loop(engine)
            /\ loop_point_a_ms' = -1
            /\ fx' = <<Fx("eng_clear_loop", 0, 0, 0), Fx("speak_loop_deactivated", 0, 0, 0)>>
    /\ UNCHANGED loopFrame

(* ----------------------------- file repeat ---------------------------- *)

set_loop_file(e, loop) == [e EXCEPT !.loop_file = loop]

\* a toggle that also drops the A-B loop of the engine
toggle_file_loop_clears_ab(eng, looping) ==
    [engine |-> engine_clear_loop(set_loop_file(eng, ~looping)), looping |-> ~looping,
     fx |-> <<Fx("eng_set_loop_file", IF ~looping THEN 1 ELSE 0, 0, 0),
              Fx(IF ~looping THEN "speak_repeat_on" ELSE "speak_repeat_off", 0, 0, 0)>>]

\* loop_logic.toggle_file_loop after its engine guard
toggle_file_loop(eng, looping) ==
    LET new_state == ~looping
    IN [engine |-> set_loop_file(eng, new_state), looping |-> new_state,
        fx |-> <<Fx("eng_set_loop_file", IF new_state THEN 1 ELSE 0, 0, 0),
                 Fx(IF new_state THEN "speak_repeat_on" ELSE "speak_repeat_off", 0, 0, 0)>>]

\* R: controls.on_key_down -> loop_logic.toggle_file_loop
ToggleFileLoop ==
    /\ started
    /\ dlg.state # "open"
    /\ op' = Op("toggle_file_loop", 0)
    /\ IF ~has_engine
       THEN fx' = <<>> /\ UNCHANGED <<engine, is_file_looping>>
       ELSE LET r == toggle_file_loop(engine, is_file_looping)
            IN /\ engine' = r.engine
               /\ is_file_looping' = r.looping
               /\ fx' = r.fx
    /\ UNCHANGED <<book_id, book_file_durations, current_file_duration_ms, current_file_index,
                   engine_to_frame_index_map, is_playing, is_exiting, has_engine, ui_timer,
                   save_state_counter, last_pause_time, start_pos_ms, loop_point_a_ms, evq,
                   later, db, finished, settings, worker, now, sleep, dlg, started>>

(* ----------------------------- book switch ---------------------------- *)

\* a switch that does not save the book it leaves
flush_outgoing_skipped(dbv, book, file, t) == [db |-> dbv, fx |-> <<>>]
\* load_new_book's save of the book it leaves: save_playback_state(frame,
\* final_time_ms=current_time) while frame.book_id is still the outgoing book
flush_outgoing(dbv, book, file, t) ==
    save_playback_state(dbv, is_exiting, has_engine, engine, book, file, t, FALSE)

\* BookLoader.load_new_book(new_book_id, ...), reached from goto_next_book_in_library,
\* goto_prev_book_in_library and play_pinned_book_by_index
load_new_book(b, ok) ==
    LET t == get_time(engine)
        sv == IF has_engine
              THEN flush_outgoing(db, book_id, current_file_index, t)
              ELSE [db |-> db, fx |-> <<>>]
        e1 == IF has_engine THEN stop(engine) ELSE engine
        fxOut == IF has_engine
                 THEN (IF t > HistoryThresholdMs THEN <<Fx("post_update_history", 0, 0, 0)>>
                       ELSE <<>>)
                      \o sv.fx \o <<Fx("eng_stop", 0, 0, 0), Fx("ui_timer_stop", 0, 0, 0)>>
                 ELSE <<>>
        \* _clear_current_book_state, then book_id = new_book_id
        ld == load_book_data(sv.db, settings.resume_rewind_ms, b)
        sp == IF has_engine
              THEN start_playback(ld.durs, ld.cur, ld.spos, e1, FALSE, FALSE, ok)
              ELSE [map |-> <<>>, cur |-> ld.cur, spos |-> ld.spos, engine |-> e1,
                    playing |-> FALSE, uit |-> FALSE, posts |-> <<>>, fx |-> <<>>]
    IN [db |-> sv.db, durs |-> ld.durs, dur |-> ld.dur, map |-> sp.map, cur |-> sp.cur,
        spos |-> sp.spos, engine |-> sp.engine, playing |-> sp.playing, uit |-> sp.uit,
        posts |-> sp.posts, fx |-> fxOut \o ld.fx \o sp.fx]

LoadNewBook(b, ok) ==
    /\ started
    /\ dlg.state # "open"
    /\ b # book_id
    /\ op' = Op("load_new_book", b)
    /\ IF is_exiting
       THEN /\ fx' = <<>>
            /\ UNCHANGED <<book_id, book_file_durations, current_file_duration_ms,
                           current_file_index, engine_to_frame_index_map, is_playing, ui_timer,
                           save_state_counter, start_pos_ms, loop_point_a_ms, is_file_looping, engine, evq, db>>
       ELSE \E r \in {load_new_book(b, ok)} :
               /\ Len(evq) + Len(r.posts) <= MaxQueue
               /\ book_id' = b
               /\ book_file_durations' = r.durs
               /\ current_file_duration_ms' = r.dur
               /\ current_file_index' = r.cur
               /\ engine_to_frame_index_map' = r.map
               /\ is_playing' = r.playing
               /\ ui_timer' = r.uit
               /\ save_state_counter' = 0
               /\ start_pos_ms' = r.spos
               /\ loop_point_a_ms' = -1
               /\ is_file_looping' = FALSE
               /\ engine' = r.engine
               /\ evq' = Push(evq, r.posts)
               /\ db' = r.db
               /\ fx' = r.fx
    /\ UNCHANGED <<is_exiting, has_engine, last_pause_time, later, finished, settings, worker, now,
                   sleep, dlg, started>>
    /\ LockedWriteWaits

(* ------------------------------ teardown ------------------------------ *)

\* an on_escape without frame.ui_timer.Stop()
DoOnEscapeTimerLeftRunning ==
    IF is_exiting
    THEN /\ fx' = <<>>
         /\ UNCHANGED <<is_exiting, has_engine, ui_timer, engine, db, sleep>>
    ELSE LET t == IF has_engine THEN get_time(engine) ELSE 0
             sv == save_playback_state(db, TRUE, FALSE, engine, book_id, current_file_index,
                                       t, FALSE)
         IN /\ is_exiting' = TRUE
            /\ ui_timer' = ui_timer
            /\ sleep' = cancel_timer(sleep)
            /\ has_engine' = FALSE
            /\ engine' = IF has_engine THEN stop(engine) ELSE engine
            /\ db' = sv.db
            /\ fx' = (IF is_active(sleep) THEN <<Fx("sleep_cancel", 0, 0, 0)>> ELSE <<>>)
                     \o (IF has_engine THEN <<Fx("eng_release", 0, 0, 0)>> ELSE <<>>)
                     \o sv.fx
                     \o <<Fx("post_update_history", 0, 0, 0), Fx("post_destroy", 0, 0, 0)>>

\* event_handlers.on_escape
DoOnEscape ==
    IF is_exiting
    THEN /\ fx' = <<>>
         /\ UNCHANGED <<is_exiting, has_engine, ui_timer, engine, db, sleep>>
    ELSE LET t == IF has_engine THEN get_time(engine) ELSE 0
             sv == save_playback_state(db, TRUE, FALSE, engine, book_id, current_file_index,
                                       t, FALSE)
         IN /\ is_exiting' = TRUE
            /\ ui_timer' = FALSE
            /\ sleep' = cancel_timer(sleep)
            /\ has_engine' = FALSE
            /\ engine' = IF has_engine THEN stop(engine) ELSE engine
            /\ db' = sv.db
            /\ fx' = <<Fx("ui_timer_stop", 0, 0, 0)>>
                     \o (IF is_active(sleep) THEN <<Fx("sleep_cancel", 0, 0, 0)>> ELSE <<>>)
                     \o (IF has_engine THEN <<Fx("eng_release", 0, 0, 0)>> ELSE <<>>)
                     \o sv.fx
                     \o <<Fx("post_update_history", 0, 0, 0), Fx("post_destroy", 0, 0, 0)>>

\* Escape key (on_key_down needs an engine) or EVT_CLOSE; a modal dialog of the
\* sleep timer keeps the keyboard away from the player window
OnEscape ==
    /\ started
    /\ dlg.state # "open"
    /\ op' = Op("on_escape", 0)
    /\ DoOnEscape
    /\ UNCHANGED <<book_id, book_file_durations, current_file_duration_ms, current_file_index,
                   engine_to_frame_index_map, is_playing, save_state_counter, last_pause_time,
                   start_pos_ms, evq, later, finished, settings, worker, loop_point_a_ms, is_file_looping, now, dlg, started>>
    /\ LockedWriteWaits

(* --------------------- events posted to the UI thread ----------------- *)

\* event_handlers.on_engine_file_changed, posted by the 'playlist-pos' observer
OnEngineFileChanged ==
    /\ evq # <<>>
    /\ Head(evq).k = "file_changed"
    /\ evq' = Tail(evq)
    /\ op' = Op("on_engine_file_changed", Head(evq).a)
    /\ fx' = <<>>
    /\ LET idx == Head(evq).a
           fi == ToSequence(engine_to_frame_index_map, idx)
       IN IF idx < 0 \/ is_exiting \/ fi = -1
          THEN UNCHANGED <<current_file_index, current_file_duration_ms, start_pos_ms>>
          ELSE /\ current_file_index' = fi
               /\ current_file_duration_ms' =
                     IF fi < NumFiles THEN book_file_durations[fi + 1]
                     ELSE current_file_duration_ms
               /\ start_pos_ms' = IF fi < NumFiles THEN 0 ELSE start_pos_ms
       \* the loop state is reset before the index lookup
    /\ loop_point_a_ms' = IF Head(evq).a < 0 \/ is_exiting THEN loop_point_a_ms ELSE -1
    /\ is_file_looping' = IF Head(evq).a < 0 \/ is_exiting THEN is_file_looping ELSE FALSE
    /\ UNCHANGED <<book_id, book_file_durations, engine_to_frame_index_map, is_playing,
                   is_exiting, has_engine, ui_timer, save_state_counter, last_pause_time,
                   engine, later, db, finished, settings, worker, now, sleep, dlg, started>>

\* event_handlers.on_engine_end_reached, posted by the 'eof-reached' observer
OnEngineEndReached ==
    /\ evq # <<>>
    /\ Head(evq).k = "end_reached"
    /\ evq' = Tail(evq)
    /\ op' = Op("on_engine_end_reached", 0)
    /\ IF is_exiting
       THEN fx' = <<>> /\ UNCHANGED later
       ELSE /\ Len(later) < MaxQueue
            /\ later' = Append(later, Ev("play_next_file", Head(evq).a))
            /\ fx' = <<Fx("call_later_play_next_file", 0, 0, 0)>>
    /\ UNCHANGED <<frameVars, engine, db, finished, settings, worker, now, sleep, dlg, started>>

\* wx.CallAfter(lambda: event_handlers.on_escape(frame, None))
PostedOnEscape ==
    /\ evq # <<>>
    /\ Head(evq).k = "on_escape"
    /\ evq' = Tail(evq)
    /\ op' = Op("on_escape", 1)
    /\ DoOnEscape
    /\ UNCHANGED <<book_id, book_file_durations, current_file_duration_ms, current_file_index,
                   engine_to_frame_index_map, is_playing, save_state_counter, last_pause_time,
                   start_pos_ms, later, finished, settings, worker, loop_point_a_ms, is_file_looping, now, dlg, started>>
    /\ LockedWriteWaits

\* wx.CallLater(100, playback_logic.play_next_file, frame): manual defaults to False
LaterPlayNextFile ==
    /\ later # <<>>
    /\ Head(later).k = "play_next_file"
    /\ op' = Op("play_next_file", 0)
    /\ DoPlayNextFile(FALSE, Tail(later))
    /\ UNCHANGED <<book_id, book_file_durations, current_file_duration_ms,
                   engine_to_frame_index_map, is_exiting, has_engine, save_state_counter,
                   start_pos_ms, settings, worker, loop_point_a_ms, is_file_looping, now, sleep, dlg, started>>

\* wx.CallLater(100, playback_logic.toggle_play_pause, frame)
LaterTogglePlayPause ==
    /\ later # <<>>
    /\ Head(later).k = "toggle_play_pause"
    /\ later' = Tail(later)
    /\ op' = Op("toggle_play_pause", 1)
    /\ DoToggle
    /\ UNCHANGED <<book_id, book_file_durations, current_file_duration_ms, current_file_index,
                   engine_to_frame_index_map, is_exiting, has_engine, save_state_counter,
                   start_pos_ms, db, finished, settings, worker, loop_point_a_ms, is_file_looping, now, sleep, dlg, started>>

\* a delayed on_escape whose timer expires without calling the handler
LaterOnEscapeDropped ==
    /\ later # <<>>
    /\ Head(later).k = "on_escape"
    /\ later' = Tail(later)
    /\ op' = Op("on_escape_dropped", 2)
    /\ fx' = <<>>
    /\ UNCHANGED <<frameVars, engine, evq, db, finished, settings, worker, now, sleep, dlg,
                   started>>

\* wx.CallLater(100, event_handlers.on_escape, frame)
LaterOnEscape ==
    /\ later # <<>>
    /\ Head(later).k = "on_escape"
    /\ later' = Tail(later)
    /\ op' = Op("on_escape", 2)
    /\ DoOnEscape
    /\ UNCHANGED <<book_id, book_file_durations, current_file_duration_ms, current_file_index,
                   engine_to_frame_index_map, is_playing, save_state_counter, last_pause_time,
                   start_pos_ms, evq, finished, settings, worker, loop_point_a_ms, is_file_looping, now, dlg, started>>
    /\ LockedWriteWaits

(* ------------------------- the engine's own steps ---------------------- *)

\* mpv's 'file-loaded' event: MpvEngine._on_file_loaded
EngineFileLoaded ==
    /\ has_engine
    /\ ~engine.idle /\ engine.pos >= 0 /\ ~engine.loaded
    /\ LET e0 == [engine EXCEPT !.loaded = TRUE, !.time = 0]
       IN engine' = IF e0.initial
                    THEN MpvSeek([e0 EXCEPT !.initial = FALSE, !.pending = 0], e0.pending)
                    ELSE IF e0.advancing
                    THEN MpvSeek([e0 EXCEPT !.advancing = FALSE], 0)
                    ELSE e0
    /\ op' = Op("engine_file_loaded", engine.pos)
    /\ fx' = <<>>
    /\ UNCHANGED <<frameVars, evq, later, db, finished, settings, worker, now, sleep, dlg, started>>

\* playback moves the position forward
EngineAdvance(t) ==
    /\ has_engine
    /\ engine.loaded /\ engine_is_playing(engine)
    /\ t > engine.time /\ t < EngCurDur(engine)
    /\ engine' = [engine EXCEPT !.time = t]
    /\ op' = Op("engine_advance", t)
    /\ fx' = <<>>
    /\ UNCHANGED <<frameVars, evq, later, db, finished, settings, worker, now, sleep, dlg, started>>

\* the file plays to its end; MpvEngine.attach_event's _on_eof: at the last entry
\* mpv holds the file open, paused (keep_open='yes'), and the end-reached
\* callback is posted; otherwise the engine moves on to the next entry
\* (the posted event, and the timer started for it, are tagged with the book
\* whose playlist ended; no handler reads the tag)
EngineEof ==
    /\ has_engine
    /\ engine.loaded /\ engine_is_playing(engine)
    /\ ~engine.loop_file
    /\ Len(evq) < MaxQueue
    /\ IF engine.pos = engine.count - 1
       THEN /\ engine' = [engine EXCEPT !.time = EngCurDur(engine), !.pause = TRUE]
            /\ evq' = Append(evq, Ev("end_reached", book_id))
       ELSE /\ engine' = playlist_next([engine EXCEPT !.advancing = TRUE])
            /\ evq' = Append(evq, Ev("file_changed", engine.pos + 1))
    /\ op' = Op("engine_eof", engine.pos)
    /\ fx' = <<>>
    /\ UNCHANGED <<frameVars, later, db, finished, settings, worker, now, sleep, dlg, started>>

\* mpv's A-B loop: playback that reaches point B continues from point A
EngineLoopBack ==
    /\ has_engine
    /\ engine.loaded /\ engine_is_playing(engine)
    /\ engine.ab_loop_a >= 0 /\ engine.ab_loop_b > engine.ab_loop_a
    /\ engine.time >= engine.ab_loop_a /\ engine.time <= engine.ab_loop_b
    /\ engine.time # engine.ab_loop_a
    /\ engine' = [engine EXCEPT !.time = engine.ab_loop_a]
    /\ op' = Op("engine_loop_back", 0)
    /\ fx' = <<>>
    /\ UNCHANGED <<frameVars, evq, later, db, finished, settings, worker, now, sleep, dlg, started>>

\* mpv's loop-file: a file that plays to its end starts again, and
\* 'eof-reached' is not set
EngineFileRepeat ==
    /\ has_engine
    /\ engine.loaded /\ engine_is_playing(engine)
    /\ engine.loop_file
    /\ engine.time > 0
    /\ engine' = [engine EXCEPT !.time = 0]
    /\ op' = Op("engine_file_repeat", 0)
    /\ fx' = <<>>
    /\ UNCHANGED <<frameVars, evq, later, db, finished, settings, worker, now, sleep, dlg, started>>

\* real time passes
AdvanceClock(d) ==
    /\ now + d <= MaxClock
    /\ now' = now + d
    /\ op' = Op("clock", d)
    /\ fx' = <<>>
    /\ UNCHANGED <<frameVars, engine, evq, later, db, finished, settings, worker, sleep, dlg, started>>

(* ------------------------------ UI timer ------------------------------ *)

\* event_handlers.on_ui_timer: the 1000 ms wx.Timer of the player window
OnUiTimer ==
    /\ ui_timer
    /\ op' = Op("on_ui_timer", 0)
    /\ IF is_exiting \/ ~has_engine
       THEN /\ ui_timer' = FALSE
            /\ fx' = <<>>
            /\ UNCHANGED <<current_file_duration_ms, book_file_durations, save_state_counter, db>>
       ELSE LET duration == get_length(engine)
                sync == duration > 0 /\ (duration - current_file_duration_ms > 1000
                                         \/ current_file_duration_ms - duration > 1000)
                fxd == IF sync THEN <<Fx("post_duration_update", duration, 0, 0)>> ELSE <<>>
                due == is_playing /\ save_state_counter + 1 >= AutoSaveTicks
                sv == IF due
                      THEN save_playback_state(db, is_exiting, has_engine, engine, book_id,
                                               current_file_index, -1, TRUE)
                      ELSE [db |-> db, fx |-> <<>>]
            IN /\ current_file_duration_ms' = IF sync THEN duration ELSE current_file_duration_ms
               /\ book_file_durations' =
                     IF sync /\ current_file_index < NumFiles
                     THEN [book_file_durations EXCEPT ![current_file_index + 1] = duration]
                     ELSE book_file_durations
               /\ save_state_counter' = IF is_playing /\ ~due THEN save_state_counter + 1 ELSE 0
               /\ db' = sv.db
               /\ fx' = fxd \o sv.fx
               /\ UNCHANGED ui_timer
    /\ UNCHANGED <<book_id, current_file_index, engine_to_frame_index_map, is_playing,
                   is_exiting, has_engine, last_pause_time, start_pos_ms, engine, evq, later,
                   finished, settings, worker, loop_point_a_ms, is_file_looping, now, sleep, dlg, started>>
    /\ LockedWriteWaits

(* --------------------------- SleepTimer steps ------------------------- *)

SleepActions == {"pause", "close_player", "close_app", "sleep", "shutdown"}
SleepModes == {"silent", "confirm", "timed"}
SleepMinutes == {1}
MaxWxTimerMs == 2147483647

\* a start that leaves a timer already armed as it is
start_timer_keeps_earlier(s, minutes, action_key, mode) ==
    IF is_active(s) THEN s
    ELSE [s EXCEPT !.action_key = action_key, !.os_action_mode = mode,
                   !.end_time = now + minutes * 60, !.running = TRUE,
                   !.fire_at = now + minutes * 60]
\* SleepTimer.start_timer(duration_minutes, action_key, os_action_mode): the fields after it
start_timer(s, minutes, action_key, mode) ==
    LET s1 == [cancel_timer(s) EXCEPT !.action_key = action_key, !.os_action_mode = mode]
        duration_ms == minutes * 60 * 1000
    IN IF duration_ms < 0 THEN s1
       ELSE [s1 EXCEPT !.end_time = now + minutes * 60,
                       !.running = TRUE,
                       !.fire_at = now + (Min(duration_ms, MaxWxTimerMs) \div 1000)]

\* quick_sleep_timer / on_show_sleep_timer -> start_timer
StartTimer(minutes, action_key, mode) ==
    /\ started
    /\ dlg.state # "open"
    /\ ~is_exiting
    /\ sleep' = start_timer(sleep, minutes, action_key, mode)
    /\ op' = Op("start_timer", minutes)
    /\ fx' = (IF is_active(sleep) THEN <<Fx("sleep_cancel", 0, 0, 0)>> ELSE <<>>)
             \o <<Fx("sleep_armed", minutes, 0, 0)>>
    /\ UNCHANGED <<frameVars, engine, evq, later, db, finished, settings, worker, now, dlg, started>>

\* actions_logic.cancel_sleep_timer -> SleepTimer.cancel_timer
CancelTimer ==
    /\ started
    /\ dlg.state # "open"
    /\ ~is_exiting
    /\ sleep' = cancel_timer(sleep)
    /\ op' = Op("cancel_timer", 0)
    /\ fx' = IF is_active(sleep) THEN <<Fx("sleep_cancel", 0, 0, 0), Fx("speak_timer_cancelled", 0, 0, 0)>>
             ELSE <<Fx("speak_no_timer", 0, 0, 0)>>
    /\ UNCHANGED <<frameVars, engine, evq, later, db, finished, settings, worker, now, dlg, started>>

\* an expiry that leaves action_key, os_action_mode and end_time as they were
on_timer_fired_uncleared(s) == [s EXCEPT !.running = FALSE, !.fire_at = -1]
\* SleepTimer._on_timer_fired up to its call of _execute_action: the expired
\* one-shot timer no longer runs and the fields are cleared
on_timer_fired(s) ==
    [s EXCEPT !.running = FALSE, !.fire_at = -1, !.action_key = "none",
              !.os_action_mode = "silent", !.end_time = -1]

\* SleepTimer._on_timer_fired followed by _execute_action: the one-shot wx.Timer expired.
\* 'close_player' evaluates self.frame.on_escape, an attribute PlayerFrame does
\* not have (on_escape is a function of event_handlers): the AttributeError
\* ends the handler before wx.CallAfter is reached and nothing is posted.
\* 'close_app' posts Close of the library frame, the player's parent.
SleepTimerFired ==
    /\ sleep.running
    /\ now >= sleep.fire_at
    /\ Len(evq) < MaxQueue
    /\ op' = Op("sleep_timer_fired", 0)
    /\ LET action == sleep.action_key
           mode == IF sleep.os_action_mode \in SleepModes THEN sleep.os_action_mode ELSE "silent"
           doPause == action = "pause" /\ has_engine /\ is_playing
           isOs == action \in OS_ACTION_KEYS
       IN /\ sleep' = on_timer_fired(sleep)
          /\ engine' = IF doPause THEN pause(engine) ELSE engine
          /\ is_playing' = IF doPause THEN FALSE ELSE is_playing
          /\ ui_timer' = IF doPause THEN FALSE ELSE ui_timer
          /\ evq' = IF isOs /\ mode = "confirm" THEN Append(evq, Ev("confirm_dialog", 0))
                    ELSE IF isOs /\ mode = "timed" THEN Append(evq, Ev("timed_dialog", 0))
                    ELSE evq
          /\ fx' = <<Fx("sleep_cleared", 0, 0, 0)>> \o
                   (IF action = "none" THEN <<>>
                    ELSE IF action = "pause"
                    THEN (IF doPause THEN <<Fx("eng_pause", 0, 0, 0)>> ELSE <<>>)
                    ELSE IF action = "close_player" THEN <<Fx("close_player_attribute_error", 0, 0, 0)>>
                    ELSE IF action = "close_app" THEN <<Fx("post_app_close", 0, 0, 0)>>
                    ELSE IF mode = "silent" THEN <<Fx("os_command", 0, 0, 0)>>
                    ELSE IF mode = "confirm" THEN <<Fx("post_confirm_dialog", 0, 0, 0)>>
                    ELSE <<Fx("post_timed_dialog", 0, 0, 0)>>)
    /\ UNCHANGED <<book_id, book_file_durations, current_file_duration_ms, current_file_index,
                   engine_to_frame_index_map, is_exiting, has_engine, save_state_counter,
                   last_pause_time, start_pos_ms, later, db, finished, settings, worker, loop_point_a_ms, is_file_looping, now, dlg,
                   started>>

\* SleepTimer._run_confirm_dialog / _run_timed_dialog reach ShowModal: the dialog opens
OpenSleepDialog ==
    /\ evq # <<>>
    /\ Head(evq).k \in {"confirm_dialog", "timed_dialog"}
    /\ dlg.state = "none"
    /\ evq' = Tail(evq)
    /\ dlg' = IF Head(evq).k = "confirm_dialog"
              THEN [state |-> "open", action |-> "confirm", remaining |-> 0,
                    was_playing |-> FALSE]
              ELSE [state |-> "open", action |-> "timed",
                    remaining |-> DEFAULT_COUNTDOWN_SECONDS, was_playing |-> FALSE]
    /\ op' = Op("open_sleep_dialog", 0)
    /\ fx' = <<>>
    /\ UNCHANGED <<frameVars, engine, later, db, finished, settings, worker, now, sleep, started>>

\* a dialog whose answer is not looked at
run_os_command_unasked(confirmed) == <<Fx("os_command", 0, 0, 0)>>

\* _run_confirm_dialog / _run_timed_dialog after the dialog has returned:
\* _run_os_command only for wx.YES / wx.ID_OK
run_os_command_if(confirmed) == IF confirmed THEN <<Fx("os_command", 0, 0, 0)>> ELSE <<>>

\* the user answers wx.MessageBox (confirm) or presses Cancel (timed)
AnswerSleepDialog(yes) ==
    /\ dlg.state = "open"
    /\ dlg.action \in {"confirm", "timed"}
    /\ dlg.action = "timed" => ~yes
    /\ dlg' = NoDialog
    /\ op' = Op("answer_sleep_dialog", IF yes THEN 1 ELSE 0)
    /\ fx' = run_os_command_if(yes)
    /\ UNCHANGED <<frameVars, engine, evq, later, db, finished, settings, worker, now, sleep, started>>

\* TimedActionDialog._on_timer_tick run n times in a row: remaining_seconds after
\* them, 0 as soon as one of them ends the dialog
RECURSIVE on_timer_tick(_, _)
on_timer_tick(remaining, n) ==
    IF n = 0 THEN remaining
    ELSE IF remaining - 1 <= 0 THEN 0
    ELSE on_timer_tick(remaining - 1, n - 1)

\* TickBatch expiries of the dialog's 1000 ms timer; at zero ShowModal returns
\* wx.ID_OK and _run_timed_dialog runs the OS command
TimedDialogTick ==
    /\ dlg.state = "open"
    /\ dlg.action = "timed"
    /\ op' = Op("timed_dialog_tick", 0)
    /\ LET r == on_timer_tick(dlg.remaining, TickBatch)
       IN IF r = 0
          THEN dlg' = NoDialog /\ fx' = run_os_command_if(TRUE)
          ELSE dlg' = [dlg EXCEPT !.remaining = r] /\ fx' = <<>>
    /\ UNCHANGED <<frameVars, engine, evq, later, db, finished, settings, worker, now, sleep, started>>

(* ------------------------ duration worker steps ----------------------- *)

notWorker == <<frameVars, engine, evq, later, db, finished, settings, now, sleep, dlg,
               started, op, fx>>

\* LibraryFrame starts _background_duration_worker on its own thread; the
\* worker returns at once when there is no task
StartDurationWorker(n, pattern) ==
    /\ worker.pc = "idle"
    /\ worker' = [WorkerIdle EXCEPT !.pc = IF n = 0 THEN "done" ELSE "map",
                                    !.n = n, !.pattern = pattern]
    /\ UNCHANGED notWorker

\* a worker that gives up at the first probe without a result
WorkerResultStopsAtFailure ==
    /\ worker.pc = "map"
    /\ ~worker.tx
    /\ worker.i <= worker.n
    /\ worker' = IF get_file_duration_task(worker.pattern, worker.i)
                 THEN [worker EXCEPT !.i = @ + 1, !.updates = Append(@, worker.i)]
                 ELSE [worker EXCEPT !.pc = "done", !.updates = <<>>]
    /\ UNCHANGED notWorker

\* one iteration of 'for result in executor.map(...)'
\* a full batch enters DatabaseManager.update_file_duration_batch: 'with
\* self.db_lock' is taken and the transaction of the executemany opens
WorkerResult ==
    /\ worker.pc = "map"
    /\ ~worker.tx
    /\ worker.i <= worker.n
    /\ LET u1 == IF get_file_duration_task(worker.pattern, worker.i)
                 THEN Append(worker.updates, worker.i)
                 ELSE worker.updates
       IN worker' = [worker EXCEPT !.i = @ + 1, !.updates = u1, !.tx = flush_due(u1)]
    /\ UNCHANGED notWorker

\* the end of update_file_duration_batch: the transaction commits, db_lock is
\* released, and the loop goes on with 'updates = []'
WorkerCommit ==
    /\ worker.pc = "map"
    /\ worker.tx
    /\ worker' = [worker EXCEPT !.tx = FALSE, !.updates = <<>>,
                                !.flushed = update_file_duration_batch(@, worker.updates)]
    /\ UNCHANGED notWorker

\* a worker that ends by pushing the refined durations into the open player
WorkerFinishRefreshesPlayer ==
    /\ worker.pc = "map"
    /\ ~worker.tx
    /\ worker.i > worker.n
    /\ worker' = IF worker.updates # <<>>
                 THEN [worker EXCEPT !.tx = TRUE]
                 ELSE [worker EXCEPT !.pc = "done"]
    /\ book_file_durations' = MediaDurations(book_file_durations)
    /\ UNCHANGED <<book_id, current_file_duration_ms, current_file_index,
                   engine_to_frame_index_map, is_playing, is_exiting, has_engine, ui_timer,
                   save_state_counter, last_pause_time, start_pos_ms, loop_point_a_ms, is_file_looping, engine,
                   evq, later, db, finished, settings, now, sleep, dlg, started, op, fx>>

\* after the loop: 'if updates: update_file_duration_batch(updates)', which
\* opens the last transaction, and the return once nothing is held
WorkerFinish ==
    /\ worker.pc = "map"
    /\ ~worker.tx
    /\ worker.i > worker.n
    /\ worker' = IF worker.updates # <<>>
                 THEN [worker EXCEPT !.tx = TRUE]
                 ELSE [worker EXCEPT !.pc = "done"]
    /\ UNCHANGED notWorker

(* --------------------------- specifications --------------------------- *)

\* the engine's own steps and the delivery of what was posted to the UI thread
EngineSteps ==
    \/ EngineFileLoaded
    \/ \E t \in PosGrid : EngineAdvance(t)
    \/ EngineEof
    \/ OnEngineFileChanged
    \/ OnEngineEndReached

Callbacks ==
    \/ PostedOnEscape
    \/ LaterPlayNextFile
    \/ LaterTogglePlayPause
    \/ LaterOnEscape

\* one book open in the player: playback control, navigation, teardown
Next ==
    \/ \E ok \in BOOLEAN : StartPlayback(ok)
    \/ TogglePlayPause
    \/ PlayNextFileManual
    \/ PlayPrevFile
    \/ StopPlayback
    \/ \E f \in BookmarkFiles, p \in BookmarkPositions : JumpToBookmark(f, p)
    \/ OnEscape
    \/ EngineSteps
    \/ Callbacks

Spec == Init /\ [][Next]_vars

\* switching between the books of the library playlist
SwitchSettings ==
    [end_of_book_action : {"stop"}, resume_on_jump : {FALSE},
     smart_resume_threshold_sec : {300}, smart_resume_rewind_ms : {10000},
     resume_rewind_ms : {0}, pause_on_dialog : {TRUE}]

InitSwitch == InitWith(SwitchSettings, SavedStates)

NextSwitch ==
    \/ \E ok \in BOOLEAN : StartPlayback(ok)
    \/ \E b \in Books, ok \in BOOLEAN : LoadNewBook(b, ok)
    \/ TogglePlayPause
    \/ EngineSteps
    \/ PostedOnEscape
    \/ LaterPlayNextFile

SpecSwitch == InitSwitch /\ [][NextSwitch]_vars

\* pausing and resuming while real time passes
ResumeSettings ==
    [end_of_book_action : {"stop"}, resume_on_jump : {TRUE},
     smart_resume_threshold_sec : {0, 300}, smart_resume_rewind_ms : {0, 10000},
     resume_rewind_ms : {0}, pause_on_dialog : {TRUE}]

InitResume == InitWith(ResumeSettings, {NoState})

NextResume ==
    \/ StartPlayback(TRUE)
    \/ TogglePlayPause
    \/ StopPlayback
    \/ EngineFileLoaded
    \/ \E t \in PosGrid : EngineAdvance(t)
    \/ \E d \in ClockSteps : AdvanceClock(d)

SpecResume == InitResume /\ [][NextResume]_vars

\* the periodic auto-save against teardown
TimerSettings ==
    [end_of_book_action : {"stop", "close"}, resume_on_jump : {TRUE},
     smart_resume_threshold_sec : {300}, smart_resume_rewind_ms : {10000},
     resume_rewind_ms : {0}, pause_on_dialog : {TRUE}]

InitTimer == InitWith(TimerSettings, {NoState})

NextTimer ==
    \/ StartPlayback(TRUE)
    \/ OnUiTimer
    \/ TogglePlayPause
    \/ OnEscape
    \/ EngineSteps
    \/ LaterPlayNextFile
    \/ LaterOnEscape

SpecTimer == InitTimer /\ [][NextTimer]_vars

\* the sleep timer of a running session
SleepSettings ==
    [end_of_book_action : {"close"}, resume_on_jump : {TRUE},
     smart_resume_threshold_sec : {300}, smart_resume_rewind_ms : {10000},
     resume_rewind_ms : {0}, pause_on_dialog : {TRUE}]

InitSleep == InitWith(SleepSettings, {NoState})

NextSleep ==
    \/ StartPlayback(TRUE)
    \/ \E m \in SleepMinutes, a \in SleepActions, md \in SleepModes : StartTimer(m, a, md)
    \/ CancelTimer
    \/ SleepTimerFired
    \/ OpenSleepDialog
    \/ \E yes \in BOOLEAN : AnswerSleepDialog(yes)
    \/ TimedDialogTick
    \/ OnEscape
    \/ EngineFileLoaded
    \/ EngineEof
    \/ OnEngineFileChanged
    \/ OnEngineEndReached
    \/ LaterPlayNextFile
    \/ LaterOnEscape
    \/ \E d \in ClockSteps : AdvanceClock(d)

SpecSleep == InitSleep /\ [][NextSleep]_vars

\* the duration worker alone
NextWorker ==
    \/ \E n \in TaskCounts, pattern \in ProbePatterns : StartDurationWorker(n, pattern)
    \/ WorkerResult
    \/ WorkerCommit
    \/ WorkerFinish

SpecWorker == InitSwitch /\ [][NextWorker]_vars

\* seeking and A-B looping in the book with a short and an unmeasured file
InitSeek == InitBook(SwitchSettings, {NoState}, MixedBook)

NextSeek ==
    \/ StartPlayback(TRUE)
    \/ \E ms \in SeekAmounts : SeekRelative(ms)
    \/ RestartFile
    \/ SeekToEnd
    \/ SeekToMiddle
    \/ SeekToEndMinus30
    \/ SetLoopStart
    \/ SetLoopEnd
    \/ ClearLoop
    \/ PlayNextFileManual
    \/ EngineFileLoaded
    \/ \E t \in PosGrid : EngineAdvance(t)
    \/ EngineLoopBack
    \/ OnEngineFileChanged

SpecSeek == InitSeek /\ [][NextSeek]_vars

\* positions reaching the engine: a session resumed from a position saved in
\* the last second of a file, and bookmarks placed there
LateStates == {NoState, [file |-> 1, pos |-> 19500]}
LateBookmarkFiles == {0, 1}
LateBookmarkPositions == {5000, 19500}

InitHandoff == InitWith(SwitchSettings, LateStates)

NextHandoff ==
    \/ StartPlayback(TRUE)
    \/ \E f \in LateBookmarkFiles, p \in LateBookmarkPositions : JumpToBookmark(f, p)
    \/ \E ms \in SeekAmounts : SeekRelative(ms)
    \/ SetLoopStart
    \/ SetLoopEnd
    \/ TogglePlayPause
    \/ EngineFileLoaded
    \/ \E t \in PosGrid : EngineAdvance(t)
    \/ OnEngineFileChanged

SpecHandoff == InitHandoff /\ [][NextHandoff]_vars

\* opening and switching books whose saved state may name a file the book no
\* longer has
PersistedStates == {NoState, [file |-> 0, pos |-> 12000], [file |-> 1, pos |-> 12000],
                    [file |-> 2, pos |-> 5000], [file |-> 7, pos |-> 5000],
                    [file |-> -3, pos |-> 5000], [file |-> 0, pos |-> 3000],
                    [file |-> 0, pos |-> 0], [file |-> 7, pos |-> 12000]}

LoadSettings ==
    [end_of_book_action : {"stop"}, resume_on_jump : {FALSE}, smart_resume_threshold_sec : {300},
     smart_resume_rewind_ms : {10000}, resume_rewind_ms : {0, 5000}, pause_on_dialog : {TRUE}]

InitLoad == InitLibrary(LoadSettings, PersistedStates, PersistedStates, 1)

NextLoad ==
    \/ \E ok \in BOOLEAN : StartPlayback(ok)
    \/ \E b \in Books, ok \in BOOLEAN : LoadNewBook(b, ok)
    \/ EngineFileLoaded
    \/ OnEngineFileChanged
    \/ PostedOnEscape

SpecLoad == InitLoad /\ [][NextLoad]_vars

\* start_playback taken as a function of the frame's resume point: every
\* index it may be handed, those without an entry in the engine map included
ResumeIndices == {0, 1, 2, 7}
ResumePositions == {0, 5000}

InitStart ==
    /\ settings \in SwitchSettings
    /\ db = [b \in Books \cup {MixedBook, LongBook, -1} |-> NoState]
    /\ book_file_durations = Catalog(1)
    /\ current_file_index \in ResumeIndices
    /\ current_file_duration_ms = Catalog(1)[1]
    /\ start_pos_ms \in ResumePositions
    /\ InitSession(1)

NextStart ==
    \/ \E ok \in BOOLEAN : StartPlayback(ok)
    \/ TogglePlayPause
    \/ EngineFileLoaded
    \/ \E t \in PosGrid : EngineAdvance(t)
    \/ OnEngineFileChanged
    \/ PostedOnEscape

SpecStart == InitStart /\ [][NextStart]_vars

\* the sleep timer and the wall clock: a timer of one minute expires within
\* one clock step, one of ten minutes does not
CountdownMinutes == {1, 10}

NextCountdown ==
    \/ StartPlayback(TRUE)
    \/ \E m \in CountdownMinutes : StartTimer(m, "pause", "silent")
    \/ CancelTimer
    \/ SleepTimerFired
    \/ EngineFileLoaded
    \/ OnEngineFileChanged
    \/ \E d \in ClockSteps : AdvanceClock(d)

SpecCountdown == InitSleep /\ [][NextCountdown]_vars

\* the duration worker of a book just added to the library, running while the
\* player has the book with the unmeasured file open
RefineTaskCounts == {1, 2}
RefinePatterns == {"all", "first_fails"}

NextRefine ==
    \/ StartPlayback(TRUE)
    \/ TogglePlayPause
    \/ PlayNextFileManual
    \/ OnEscape
    \/ EngineFileLoaded
    \/ \E t \in PosGrid : EngineAdvance(t)
    \/ OnEngineFileChanged
    \/ \E n \in RefineTaskCounts, pattern \in RefinePatterns : StartDurationWorker(n, pattern)
    \/ WorkerResult
    \/ WorkerCommit
    \/ WorkerFinish

SpecRefine == InitSeek /\ [][NextRefine]_vars

\* a book played to its end and stopped while the duration worker of a book
\* just added to the library writes its batch
NextCatalog ==
    \/ StartPlayback(TRUE)
    \/ StopPlayback
    \/ OnUiTimer
    \/ EngineFileLoaded
    \/ \E t \in PosGrid : EngineAdvance(t)
    \/ EngineEof
    \/ OnEngineFileChanged
    \/ OnEngineEndReached
    \/ LaterPlayNextFile
    \/ \E n \in RefineTaskCounts : StartDurationWorker(n, "all")
    \/ WorkerResult
    \/ WorkerCommit
    \/ WorkerFinish

SpecCatalog == InitSwitch /\ [][NextCatalog]_vars

\* every way the session starts, pauses, resumes and stops playback: the
\* keys, the bookmarks dialog, the sleep timer's pause, the end of the book
\* and a switch to another book, with a playlist that may fail to load
UiTimerSettings ==
    [end_of_book_action : {"stop"}, resume_on_jump : {FALSE},
     smart_resume_threshold_sec : {300}, smart_resume_rewind_ms : {10000},
     resume_rewind_ms : {0}, pause_on_dialog : {TRUE}]

InitUiTimer == InitWith(UiTimerSettings, {NoState})

NextUiTimer ==
    \/ \E ok \in BOOLEAN : StartPlayback(ok)
    \/ TogglePlayPause
    \/ StopPlayback
    \/ \E ok \in BOOLEAN : LoadNewBook(2, ok)
    \/ ShowBookmarksOpen
    \/ ShowBookmarksClose(FALSE, 0, 0)
    \/ StartTimer(1, "pause", "silent")
    \/ SleepTimerFired
    \/ EngineFileLoaded
    \/ EngineAdvance(19500)
    \/ EngineEof
    \/ OnEngineFileChanged
    \/ OnEngineEndReached
    \/ LaterPlayNextFile
    \/ PostedOnEscape
    \/ AdvanceClock(301)

SpecUiTimer == InitUiTimer /\ [][NextUiTimer]_vars

\* end of book under the action 'close': the wx event loop runs every
\* CallAfter event and every expired CallLater timer
CloseSettings ==
    [end_of_book_action : {"close"}, resume_on_jump : {FALSE},
     smart_resume_threshold_sec : {300}, smart_resume_rewind_ms : {10000},
     resume_rewind_ms : {0}, pause_on_dialog : {TRUE}]

InitClose == \E b \in Books : InitBook(CloseSettings, SavedStates, b)

NextClose ==
    \/ StartPlayback(TRUE)
    \/ StopPlayback
    \/ PlayNextFileManual
    \/ OnEscape
    \/ EngineSteps
    \/ LaterPlayNextFile
    \/ LaterOnEscape

SpecClose ==
    /\ InitClose
    /\ [][NextClose]_vars
    /\ WF_vars(OnEngineFileChanged)
    /\ WF_vars(OnEngineEndReached)
    /\ WF_vars(LaterPlayNextFile)
    /\ WF_vars(LaterOnEscape)

\* an end of book whose delayed handler runs after the user has switched
\* books or stepped back a file
NextStale ==
    \/ StartPlayback(TRUE)
    \/ \E b \in Books : LoadNewBook(b, TRUE)
    \/ PlayPrevFile
    \/ EngineSteps
    \/ LaterPlayNextFile

SpecStale == InitSwitch /\ [][NextStale]_vars

\* bookmarks reached with the keys and through the bookmarks dialog, in a
\* session that may be paused when the dialog opens
DialogBookmarkFiles == {1}
DialogSettings ==
    [end_of_book_action : {"stop"}, resume_on_jump : BOOLEAN,
     smart_resume_threshold_sec : {300}, smart_resume_rewind_ms : {10000},
     resume_rewind_ms : {0}, pause_on_dialog : BOOLEAN]

InitBookmark == InitWith(DialogSettings, {NoState})

NextBookmark ==
    \/ StartPlayback(TRUE)
    \/ TogglePlayPause
    \/ \E f \in DialogBookmarkFiles, p \in LateBookmarkPositions : JumpToBookmark(f, p)
    \/ ShowBookmarksOpen
    \/ ShowBookmarksClose(FALSE, 0, 0)
    \/ \E f \in DialogBookmarkFiles, p \in LateBookmarkPositions : ShowBookmarksClose(TRUE, f, p)
    \/ EngineFileLoaded
    \/ \E t \in PosGrid : EngineAdvance(t)
    \/ OnEngineFileChanged
    \/ LaterTogglePlayPause

SpecBookmark == InitBookmark /\ [][NextBookmark]_vars

\* a sleep timer that is to close the player or the application; the wx event
\* loop runs expired timers and posted events
CloseActions == {"close_player", "close_app"}

NextSleepClose ==
    \/ StartPlayback(TRUE)
    \/ \E a \in CloseActions : StartTimer(1, a, "silent")
    \/ CancelTimer
    \/ SleepTimerFired
    \/ TogglePlayPause
    \/ OnEscape
    \/ EngineFileLoaded
    \/ OnEngineFileChanged
    \/ \E d \in ClockSteps : AdvanceClock(d)

SpecSleepClose ==
    /\ InitSleep
    /\ [][NextSleepClose]_vars
    /\ WF_vars(SleepTimerFired)
    /\ WF_vars(OnEngineFileChanged)
    /\ WF_vars(EngineFileLoaded)

\* the ways a playing session gets paused (Space, a modal dialog, the sleep
\* timer, stop) with the wall clock running on
PauseSettings ==
    [end_of_book_action : {"stop"}, resume_on_jump : {TRUE},
     smart_resume_threshold_sec : {300}, smart_resume_rewind_ms : {10000},
     resume_rewind_ms : {0}, pause_on_dialog : {TRUE}]

InitPause == InitWith(PauseSettings, {NoState})

NextPause ==
    \/ StartPlayback(TRUE)
    \/ TogglePlayPause
    \/ StopPlayback
    \/ StartTimer(1, "pause", "silent")
    \/ SleepTimerFired
    \/ ShowBookmarksOpen
    \/ ShowBookmarksClose(FALSE, 0, 0)
    \/ EngineFileLoaded
    \/ OnEngineFileChanged
    \/ \E t \in PosGrid : EngineAdvance(t)
    \/ \E d \in ClockSteps : AdvanceClock(d)

SpecPause == InitPause /\ [][NextPause]_vars

\* a book resumed far into a long file, and switches away from it and back
HistoryStates == {NoState, [file |-> 0, pos |-> 70000]}

InitHistory == InitBook(SwitchSettings, HistoryStates, LongBook)

NextHistory ==
    \/ StartPlayback(TRUE)
    \/ \E b \in Books \cup {LongBook} : LoadNewBook(b, TRUE)
    \/ TogglePlayPause
    \/ EngineFileLoaded
    \/ \E t \in PosGrid : EngineAdvance(t)
    \/ OnEngineFileChanged

SpecHistory == InitHistory /\ [][NextHistory]_vars

\* file repeat and the A-B loop used together
NextLoopModes ==
    \/ StartPlayback(TRUE)
    \/ ToggleFileLoop
    \/ SetLoopStart
    \/ SetLoopEnd
    \/ ClearLoop
    \/ PlayNextFileManual
    \/ EngineFileLoaded
    \/ \E t \in PosGrid : EngineAdvance(t)
    \/ EngineLoopBack
    \/ EngineFileRepeat
    \/ OnEngineFileChanged

SpecLoopModes == InitResume /\ [][NextLoopModes]_vars

(* ------------------------------ properties ---------------------------- *)

\* what a handler may not touch when it only notifies
sessionState == <<frameVars, engine, evq, later, db, finished, sleep, dlg, settings>>

\* C1: for the index map built by start_playback, every sequence index present
\* in the engine's loaded set round-trips through ToEngine / ToSequence, and
\* every engine index maps to exactly one sequence index: a valid row of the
\* book, held by no other engine index.
C1_IndexMapRoundTrips ==
    LET map == engine_to_frame_index_map
    IN /\ \A i \in 0..(NumFiles - 1) :
             InMap(map, i) =>
                ToEngine(map, ToSequence(map, ToEngine(map, i))) = ToEngine(map, i)
       /\ \A e \in 0..(Len(map) - 1) :
             /\ ToSequence(map, e) \in 0..(NumFiles - 1)
             /\ \A f \in 0..(Len(map) - 1) : ToSequence(map, f) = ToSequence(map, e) => f = e

C1_Witness ==
    /\ op.name = "on_engine_file_changed"
    /\ Len(engine_to_frame_index_map) = 2
    /\ current_file_index = ToSequence(engine_to_frame_index_map, 1)
    /\ ToEngine(engine_to_frame_index_map, current_file_index) = 1

\* C2: jump_to_bookmark on a bookmark whose file index has no engine mapping
\* (outside the file list, or absent from the map) in a live session reports a
\* file-unavailable error, sends the engine no command at all and leaves the
\* session state as it was.
C2_UnmappedBookmarkRejected ==
    [][(op'.name = "jump_to_bookmark" /\ has_engine
        /\ (~(0 <= op'.a /\ op'.a < NumFiles) \/ ~InMap(engine_to_frame_index_map, op'.a)))
       => /\ Len(fx') = 1
          /\ Kinds(fx') \subseteq {"speak_bookmark_file_nonexistent", "speak_bookmark_file_missing"}
          /\ UNCHANGED sessionState]_vars

C2_Witness ==
    /\ op.name = "jump_to_bookmark"
    /\ op.a = 2
    /\ has_engine
    /\ engine.pos = 1
    /\ Kinds(fx) = {"speak_bookmark_file_nonexistent"}

\* C3: with end_of_book_action = loop, when the engine reports the end of the
\* playlist while the session is playing and play_next_file runs non-manually at
\* the last file, the session is at file 0, position 0 and playing (is_playing
\* set and the engine not paused), and the book was marked finished once.
C3_LoopRestartsPlayback ==
    [][(op'.name = "play_next_file" /\ op'.a = 0 /\ has_engine /\ is_playing
        /\ at_last_file(current_file_index, NumFiles)
        /\ get_end_of_book_action = "loop")
       => /\ current_file_index' = 0
          /\ get_time(engine') = 0
          /\ CountKind(fx', "mark_finished") = 1
          /\ is_playing'
          /\ engine_is_playing(engine')]_vars

\* C4: a manual NextFile at the last file, or a manual PreviousFile at the first
\* file, only speaks the boundary notification: session, engine and persisted
\* state stay as they were, nothing is scheduled and the book is not marked
\* finished, whatever end_of_book_action is configured.
C4_ManualBoundaryIsNoOp ==
    [][/\ (op'.name = "play_next_file" /\ op'.a = 1 /\ has_engine
           /\ current_file_index + 1 >= NumFiles)
          => (fx' = <<Fx("speak_end_of_book", 0, 0, 0)>> /\ UNCHANGED sessionState)
       /\ (op'.name = "play_prev_file" /\ has_engine /\ current_file_index <= 0)
          => (fx' = <<Fx("speak_start_of_book", 0, 0, 0)>> /\ UNCHANGED sessionState)]_vars

C4_Witness ==
    /\ op.name = "play_next_file"
    /\ op.a = 1
    /\ fx = <<Fx("speak_end_of_book", 0, 0, 0)>>
    /\ current_file_index = 1
    /\ is_playing
    /\ settings.end_of_book_action = "loop"

\* C5: with smart_resume_threshold_sec = 300 and smart_resume_rewind_ms = 10000 a
\* resume by toggle_play_pause more than 300 s after the pause rewinds the
\* position by exactly 10000 ms (not below 0) and a resume after less leaves
\* it where it was; a threshold or a rewind of 0 disables the rewind. Stated for
\* a loaded file that is not within NearEndMs of its end.
C5_SmartResumeRewind ==
    [][(op'.name = "toggle_play_pause" /\ has_engine /\ ~engine_is_playing(engine)
        /\ last_pause_time > 0
        /\ get_length(engine) # 0
        /\ current_file_duration_ms - get_time(engine) >= NearEndMs)
       => LET threshold == settings.smart_resume_threshold_sec
              rewind == settings.smart_resume_rewind_ms
              paused == now - last_pause_time
              pos == get_time(engine)
          IN /\ engine_is_playing(engine')
             /\ get_time(engine') =
                   IF threshold > 0 /\ rewind > 0 /\ paused > threshold
                   THEN Max(0, pos - rewind) ELSE pos]_vars

\* C6: the playback-state write of teardown is the last one of the session:
\* on_escape stops the UI timer before its own single save, and once teardown
\* has begun no timer tick, delayed callback or engine event writes again.
C6_TeardownWriteIsLast ==
    [][/\ (~is_exiting /\ is_exiting')
          => /\ ~ui_timer'
             /\ CountKind(fx', "save") = 1
             /\ CountKind(fx', "ui_timer_stop") = 1
             /\ FirstIdx(fx', "ui_timer_stop") < FirstIdx(fx', "save")
       /\ is_exiting
          => /\ db' = db
             /\ "save" \notin Kinds(fx')
             /\ ~ui_timer']_vars

C6_Witness ==
    /\ is_exiting
    /\ op.name = "play_next_file"
    /\ later = <<>>
    /\ db[book_id] # NoState
    /\ ~finished[book_id]

\* C7: after on_escape no timer of the session fires: the UI timer and the sleep
\* timer are stopped, and no sleep-timer action, in particular no OS command,
\* is dispatched for the session any more.
C7_NoTimerAfterTeardown ==
    [][is_exiting
       => /\ ~ui_timer'
          /\ ~sleep'.running
          /\ op'.name \notin {"on_ui_timer", "sleep_timer_fired"}
          /\ "os_command" \notin Kinds(fx')]_vars

\* C8: load_new_book saves the outgoing book under its own id, with the file
\* index and the position it had, before the state of the new book is loaded;
\* it saves once, and every later save is one of the book then open.
C8_OutgoingSavedBeforeLoad ==
    [][/\ (op'.name = "load_new_book" /\ ~is_exiting /\ has_engine)
          => /\ CountKind(fx', "save") = 1
             /\ CountKind(fx', "load_state") = 1
             /\ FirstIdx(fx', "save") < FirstIdx(fx', "load_state")
             /\ fx'[FirstIdx(fx', "save")] =
                   Fx("save", book_id, current_file_index, get_time(engine))
             /\ fx'[FirstIdx(fx', "load_state")].a = book_id'
             /\ book_id' # book_id
             /\ \A b \in Books \ {book_id, book_id'} : db'[b] = db[b]
       /\ op'.name # "load_new_book"
          => /\ book_id' = book_id
             /\ \A i \in DOMAIN fx' : fx'[i].k = "save" => fx'[i].a = book_id
             /\ \A b \in Books \ {book_id} : db'[b] = db[b]]_vars

C8_Witness ==
    /\ op.name = "load_new_book"
    /\ book_id = 2
    /\ db[1] = [file |-> 1, pos |-> 5000]
    /\ engine.pos = 0
    /\ FirstIdx(fx, "save") > 0

\* C9: start_timer followed by cancel_timer before the countdown expires never
\* dispatches the timer's action: cancel_timer leaves the service idle
\* (is_active() false, no remaining seconds, no wx timer running), and the timer
\* only ever fires on a service that was armed and not cancelled since.
C9_CancelledTimerNeverFires ==
    [][/\ op'.name = "cancel_timer"
          => /\ ~is_active(sleep')
             /\ get_remaining_seconds(sleep') = -1
             /\ Kinds(fx') \cap {"os_command", "post_confirm_dialog", "post_timed_dialog",
                                 "post_app_close", "close_player_attribute_error", "eng_pause"} = {}
       /\ op'.name = "sleep_timer_fired"
          => /\ sleep.action_key # "none"
             /\ sleep.end_time # -1]_vars

C9_Witness ==
    /\ op.name = "cancel_timer"
    /\ "sleep_cancel" \in Kinds(fx)
    /\ ~is_active(sleep)
    /\ now > 60

\* C10: when the sleep timer fires the service is idle again (end time and action
\* cleared, is_active() false) before the action is dispatched, and the dispatch,
\* with its confirmation dialog, does not touch the service: a timer armed while
\* the dispatch is under way stays armed when it returns.
C10_IdleBeforeDispatch ==
    [][/\ op'.name = "sleep_timer_fired"
          => /\ ~is_active(sleep')
             /\ sleep'.end_time = -1
             /\ sleep'.action_key = "none"
             /\ fx'[1].k = "sleep_cleared"
       /\ op'.name \in {"open_sleep_dialog", "answer_sleep_dialog", "timed_dialog_tick"}
          => sleep' = sleep]_vars

C10_Witness ==
    /\ op = Op("answer_sleep_dialog", 1)
    /\ sleep.running
    /\ sleep.action_key = "pause"
    /\ ~is_exiting


RECURSIVE TotalLen(_)
TotalLen(batches) == IF batches = <<>> THEN 0
                     ELSE Len(Head(batches)) + TotalLen(Tail(batches))

Ids(s) == {s[j] : j \in DOMAIN s}

C12_LoopEndRejected ==
    [][(/\ op'.name = "set_loop_end"
        /\ (loop_point_a_ms = -1 \/ get_time(engine) < loop_point_a_ms))
       => /\ UNCHANGED sessionState
          /\ Kinds(fx') \cap {"eng_set_loop_a", "eng_set_loop_b", "eng_set_time"} = {}
          /\ (loop_point_a_ms = -1 => loop_point_a_ms' = -1)]_vars

\* set_loop_end was refused because the position had moved back before point A
C12_Witness ==
    /\ op.name = "set_loop_end"
    /\ fx = <<Fx("speak_loop_end_before_start", 0, 0, 0)>>
    /\ loop_point_a_ms > get_time(engine)
    /\ engine.ab_loop_a = -1

\* the seek_absolute calls of the last handler: <<target, duration, position
\* handed to engine.set_time>>
SeekCalls == {<<fx[i].a, fx[i].b, fx[i + 1].a>> :
                 i \in {j \in DOMAIN fx : fx[j].k = "seek_absolute"}}

(* C13 as stated: whenever the duration of the current file is known, the   *)
(* position seek_absolute and seek_relative hand to the engine lies in      *)
(* [0, duration - 1000], so never within the last 1000 ms of the file; with *)
(* an unknown duration it is only kept non-negative.                        *)
C13_SeekClampedForEveryDuration ==
    \A c \in SeekCalls :
        LET target_ms == c[1]
            dur == c[2]
            new_time == c[3]
        IN /\ new_time >= 0
           /\ dur > 0 => new_time <= dur - NearEndMs
           /\ dur <= 0 => new_time = Max(0, target_ms)

(* C13, amended: with a known duration the position handed to the engine is *)
(* the target clamped to [0, max(0, duration - 1000)]; it is outside the    *)
(* last 1000 ms of the file whenever the file is at least 1000 ms long, and *)
(* it is 0 for a shorter file.  With an unknown duration it is the target   *)
(* clamped to [0, infinity).  seek_relative's target is the engine's        *)
(* position plus the offset.                                                *)
C13_SeekClamped ==
    [][/\ \A c \in SeekCalls' :
            LET target_ms == c[1]
                dur == c[2]
                new_time == c[3]
                top == Max(0, dur - NearEndMs)
            IN /\ new_time >= 0
               /\ dur > 0 => /\ new_time <= top
                             /\ (target_ms >= 0 /\ target_ms <= top) => new_time = target_ms
                             /\ target_ms > top => new_time = top
                             /\ target_ms < 0 => new_time = 0
               /\ dur >= NearEndMs => new_time <= dur - NearEndMs
               /\ dur <= 0 => new_time = Max(0, target_ms)
       /\ (op'.name = "seek_relative" /\ has_engine)
             => SeekCalls' = {<<get_time(engine) + op'.a, current_file_duration_ms,
                                fx'[2].a>>}]_vars

\* a forward seek from 5000 ms in the 20000 ms file, cut back to 19000 ms
C13_Witness ==
    /\ op.name = "seek_relative"
    /\ SeekCalls = {<<35000, 20000, 19000>>}
    /\ engine.time = 19000

\* what the last handler handed to the engine: <<position, engine index of
\* the file the position is for>>
HandedPositions ==
    {<<fx[i].a, engine.pos>> : i \in {j \in DOMAIN fx : fx[j].k = "eng_set_time"}}
    \cup {<<fx[i].b, fx[i].a>> :
             i \in {j \in DOMAIN fx : fx[j].k \in {"eng_playlist_jump", "eng_load_playlist"}}}

(* C14 as stated: every position the session hands to the engine (seek,     *)
(* bookmark jump, loop activation, smart resume, end-of-book reset,         *)
(* playlist load) lies in [0, duration) of the file it is for and is not    *)
(* within the final 1000 ms of that file.                                   *)
C14_HandedPositionsInsideFile ==
    \A h \in HandedPositions :
        LET position_ms == h[1]
            e == h[2]
        IN (e >= 0 /\ e < Len(engine.durs))
              => /\ position_ms >= 0
                 /\ position_ms < engine.durs[e + 1]
                 /\ position_ms <= engine.durs[e + 1] - NearEndMs

\* the row of the book just loaded: book_id's row is not written while loading
PersistedRow == db[book_id]
PersistedInRange ==
    PersistedRow.file >= 0 /\ PersistedRow.file < Len(Catalog(book_id))

(* C15: after a book is loaded (when the player is built, and on a switch   *)
(* to another book) with a persisted file index outside [0, number of       *)
(* files), the session is at file 0 with start position 0, whatever the     *)
(* persisted position and the rewind-on-resume setting, and that is what    *)
(* the engine is asked to load; with an index in range the session keeps    *)
(* the persisted index.                                                     *)
C15_OutOfRangeIndexResets ==
    (/\ op.name \in {"init", "load_new_book", "start_playback"}
     /\ ~is_exiting
     /\ PersistedRow # NoState)
    => /\ ~PersistedInRange => (current_file_index = 0 /\ start_pos_ms = 0)
       /\ PersistedInRange => current_file_index = PersistedRow.file
       /\ \A i \in DOMAIN fx :
             fx[i].k = "eng_load_playlist"
                => /\ fx[i].a = (IF PersistedInRange THEN PersistedRow.file ELSE 0)
                   /\ ~PersistedInRange => fx[i].b = 0

\* a switch to a book whose row names file 7, with rewind on resume set
C15_Witness ==
    /\ op.name = "load_new_book"
    /\ PersistedRow = [file |-> 7, pos |-> 5000]
    /\ settings.resume_rewind_ms = 5000
    /\ current_file_index = 0
    /\ start_pos_ms = 0
    /\ is_playing

C17_FinishedMarkedFirst ==
    [][(/\ op' = Op("play_next_file", 0)
        /\ has_engine
        /\ current_file_index + 1 >= NumFiles)
       => /\ fx'[1] = Fx("mark_finished", book_id, 0, 0)
          /\ CountKind(fx', "mark_finished") = 1
          /\ \A k \in {"eng_playlist_jump", "eng_set_time", "eng_pause", "save",
                        "speak_end_of_book", "speak_end_of_book_looping",
                        "speak_end_of_book_closing", "call_later_toggle",
                        "call_later_on_escape"} :
                k \in Kinds(fx') => FirstIdx(fx', k) > 1
          /\ "save" \in Kinds(fx')
          /\ finished'[book_id]
          /\ \A b \in Books \ {book_id} : finished'[b] = finished[b]]_vars

\* an automatic end of book with the action 'close'
C17_Witness ==
    /\ op = Op("play_next_file", 0)
    /\ settings.end_of_book_action = "close"
    /\ fx # <<>> /\ fx[1].k = "mark_finished"
    /\ "call_later_on_escape" \in Kinds(fx)
    /\ finished[book_id]
    /\ db[book_id] = [file |-> 0, pos |-> 0]

(* C18: when start_playback (at the start of the session or after a switch *)
(* of book) asks the engine to load the playlist and the engine does not    *)
(* hold a playlist afterwards, the session is not playing and its UI timer  *)
(* is not running, the engine was not told to play, the error message was   *)
(* shown and on_escape was posted; and only start_playback and              *)
(* load_new_book ever ask the engine to load a playlist, so no callback,    *)
(* timer or engine event repeats the load.                                  *)
C18_LoadFailureStopsSession ==
    [][/\ ("eng_load_playlist" \in Kinds(fx') /\ engine'.count = 0)
          => /\ ~is_playing'
             /\ ~ui_timer'
             /\ "eng_play" \notin Kinds(fx')
             /\ "msg_load_failed" \in Kinds(fx')
             /\ evq' # <<>> /\ evq'[Len(evq')] = Ev("on_escape", 0)
             /\ CountKind(fx', "eng_load_playlist") = 1
       /\ "eng_load_playlist" \in Kinds(fx')
          => op'.name \in {"start_playback", "load_new_book"}]_vars

\* the load failed when the session started
C18_Witness ==
    /\ op = Op("start_playback", 0)
    /\ "msg_load_failed" \in Kinds(fx)
    /\ engine.count = 0
    /\ ~is_playing /\ ~ui_timer
    /\ evq = <<Ev("on_escape", 0)>>

\* what a call of get_remaining_seconds returns in the current state
Remaining == get_remaining_seconds(sleep)

(* C19 as stated: of two calls of get_remaining_seconds separated by real   *)
(* time, with no start_timer in between, the second returns strictly less   *)
(* than the first.                                                          *)
C19_RemainingStrictlyDecreases ==
    [][(/\ op'.name # "start_timer"
        /\ now' > now
        /\ Remaining >= 0 /\ Remaining' >= 0)
       => Remaining' < Remaining]_vars

(* C19, amended: get_remaining_seconds is the difference between the stored *)
(* end time and the wall clock, floored at 0.  With no start_timer in       *)
(* between it never increases, and it strictly decreases as real time       *)
(* passes while it is positive; once the end time has passed it stays 0     *)
(* until the timer event is handled.                                        *)
C19_RemainingNeverIncreases ==
    [][/\ Remaining' >= 0 => Remaining' = Max(0, sleep'.end_time - now')
       /\ (/\ op'.name # "start_timer"
           /\ Remaining >= 0 /\ Remaining' >= 0)
          => /\ Remaining' <= Remaining
             /\ (now' > now /\ Remaining > 0) => Remaining' < Remaining
             /\ (now' > now /\ Remaining = 0) => Remaining' = 0]_vars

\* 299 s into a timer of ten minutes
C19_Witness ==
    /\ op = Op("clock", 299)
    /\ sleep.running
    /\ sleep.end_time = now - 299 + 600
    /\ Remaining = 301

\* dialogs of the sleep timer that are posted and not opened yet
PendingSleepDialogs(q) ==
    Cardinality({i \in DOMAIN q : q[i].k \in {"confirm_dialog", "timed_dialog"}})

(* C20: the OS command (sleep, hibernate, shutdown) is run only             *)
(*  - by _on_timer_fired itself, when the mode is silent,                   *)
(*  - when the user answers yes in the confirm dialog,                      *)
(*  - when the countdown of the timed dialog, opened at 120 s, reaches 0;   *)
(* a declined prompt or a cancelled countdown closes the dialog without     *)
(* running it.  One expiry runs the command at once or posts one dialog,    *)
(* never both; a dialog is opened for one posted request and closes with    *)
(* at most one command, so the command runs at most once per expiry and is  *)
(* not repeated, whatever its outcome.                                      *)
C20_OsCommandOnlyWhenConfirmed ==
    [][/\ CountKind(fx', "os_command") <= 1
       /\ "os_command" \in Kinds(fx')
          => \/ /\ op'.name = "sleep_timer_fired"
                /\ sleep.action_key \in OS_ACTION_KEYS
                /\ sleep.os_action_mode \notin {"confirm", "timed"}
                /\ evq' = evq
             \/ /\ op' = Op("answer_sleep_dialog", 1)
                /\ dlg.state = "open" /\ dlg.action = "confirm"
                /\ dlg' = NoDialog
             \/ /\ op'.name = "timed_dialog_tick"
                /\ dlg.state = "open" /\ dlg.action = "timed"
                /\ dlg.remaining <= TickBatch
                /\ dlg' = NoDialog
       /\ op' = Op("answer_sleep_dialog", 0)
          => ("os_command" \notin Kinds(fx') /\ dlg' = NoDialog /\ evq' = evq)
       /\ PendingSleepDialogs(evq') > PendingSleepDialogs(evq)
          => /\ op'.name = "sleep_timer_fired"
             /\ sleep.action_key \in OS_ACTION_KEYS
             /\ sleep.os_action_mode \in {"confirm", "timed"}
             /\ PendingSleepDialogs(evq') = PendingSleepDialogs(evq) + 1
       /\ (dlg'.state = "open" /\ dlg.state # "open")
          => /\ PendingSleepDialogs(evq') = PendingSleepDialogs(evq) - 1
             /\ dlg'.action = "timed" => dlg'.remaining = DEFAULT_COUNTDOWN_SECONDS
       /\ dlg' # dlg
          => op'.name \in {"open_sleep_dialog", "answer_sleep_dialog", "timed_dialog_tick"}
       /\ (op'.name = "timed_dialog_tick" /\ dlg'.state = "open")
          => (dlg'.remaining < dlg.remaining /\ dlg'.remaining > 0)]_vars

\* the countdown of the timed dialog ran out and the command was run
C20_Witness ==
    /\ op.name = "timed_dialog_tick"
    /\ fx = <<Fx("os_command", 0, 0, 0)>>
    /\ dlg = NoDialog
    /\ ~is_active(sleep)

\* C21: cancellation is idempotent: cancel_timer on an idle sleep timer changes
\* nothing (fields, wx timer, session, queues, catalog) and dispatches nothing,
\* cancelling twice is cancelling once, and an on_escape on a session that is
\* already torn down performs no save, no engine release and no timer change.
C21_CancellationIdempotent ==
    [][/\ cancel_timer(cancel_timer(sleep)) = cancel_timer(sleep)
       /\ (op'.name = "cancel_timer" /\ ~is_active(sleep))
          => /\ sleep' = sleep
             /\ UNCHANGED <<frameVars, engine, evq, later, db, finished, dlg>>
             /\ Kinds(fx') = {"speak_no_timer"}
       /\ (op'.name = "on_escape" /\ is_exiting)
          => /\ fx' = <<>>
             /\ UNCHANGED <<frameVars, engine, db, finished, sleep, dlg>>
             /\ Len(evq') <= Len(evq) /\ Len(later') <= Len(later)]_vars

\* a second on_escape has run on a session torn down earlier, whose sleep
\* timer the first one cancelled
C21_Witness ==
    /\ op.name = "on_escape"
    /\ fx = <<>>
    /\ is_exiting
    /\ ~has_engine
    /\ sleep.os_action_mode = "none"

\* C22: the duration worker writes only to the catalog: whatever the session
\* is doing, a step of the worker leaves the live session state (book, current
\* file, position, durations snapshot, play state, engine, queues, persisted
\* playback state) as it was, and whether the worker can take a step depends
\* on the worker alone.
C22_WorkerLeavesSessionAlone ==
    [][/\ worker' # worker
          => UNCHANGED <<frameVars, engine, evq, later, db, finished, settings, sleep, dlg,
                         started>>
       /\ (ENABLED (WorkerResult \/ WorkerCommit \/ WorkerFinish)) <=> worker.pc = "map"]_vars

\* the worker has written its batch to the catalog while the session was playing
C22_Witness ==
    /\ worker.pc = "done"
    /\ worker.flushed # <<>>
    /\ is_playing
    /\ engine.time > 0
    /\ book_file_durations = Catalog(MixedBook)

\* C23: with end_of_book_action = stop, when play_next_file has handled an
\* automatic end of book the session is at file index 0, the persisted
\* playback state of the book is file 0, position 0, the session is not
\* playing (is_playing false, UI timer stopped, pause timestamp cleared, the
\* engine paused on entry 0) and it is not torn down: the engine is kept and
\* no on_escape is scheduled.
C23_StopPolicyRestsAtStart ==
    [][(/\ op' = Op("play_next_file", 0)
        /\ has_engine
        /\ current_file_index + 1 >= NumFiles
        /\ settings.end_of_book_action = "stop")
       => /\ current_file_index' = 0
          /\ db'[book_id] = [file |-> 0, pos |-> 0]
          /\ ~is_playing'
          /\ ~ui_timer'
          /\ last_pause_time' = 0
          /\ engine'.pause /\ engine'.pos = 0 /\ get_time(engine') = 0
          /\ ~is_exiting' /\ has_engine'
          /\ later' = Tail(later)
          /\ Kinds(fx') \cap {"call_later_on_escape", "call_later_toggle", "post_destroy",
                              "eng_release"} = {}]_vars

\* the last file of the two-file book played to its end while the session was
\* playing, and the action 'stop' has been applied
C23_Witness ==
    /\ op = Op("play_next_file", 0)
    /\ settings.end_of_book_action = "stop"
    /\ fx # <<>> /\ fx[1].k = "mark_finished"
    /\ "speak_end_of_book" \in Kinds(fx)
    /\ NumFiles = 2
    /\ current_file_index = 0
    /\ ~is_playing /\ ~ui_timer /\ ~is_exiting
    /\ db[book_id] = [file |-> 0, pos |-> 0]
    /\ Kinds(evq) = {"file_changed"}

\* C24: with end_of_book_action = close, play_next_file handling an automatic
\* end of book persists the playback state (file 0, position 0) before it
\* schedules on_escape, and the scheduled on_escape then tears the session
\* down: eventually is_exiting is true, the engine is released, and the step
\* that sets is_exiting saves the final state and hands control back to the
\* library.
C24_ClosePolicySavesThenTerminates ==
    /\ [][/\ (/\ op' = Op("play_next_file", 0)
              /\ has_engine
              /\ current_file_index + 1 >= NumFiles
              /\ settings.end_of_book_action = "close")
             => /\ db'[book_id] = [file |-> 0, pos |-> 0]
                /\ FirstIdx(fx', "save") > 0
                /\ FirstIdx(fx', "call_later_on_escape") > FirstIdx(fx', "save")
                /\ later' # <<>> /\ later'[Len(later')] = Ev("on_escape", 0)
                /\ ~is_exiting'
          /\ (is_exiting' /\ ~is_exiting)
             => /\ op'.name = "on_escape"
                /\ {"save", "post_update_history", "post_destroy"} \subseteq Kinds(fx')]_vars
    /\ (/\ op = Op("play_next_file", 0)
        /\ fx # <<>> /\ fx[1].k = "mark_finished"
        /\ settings.end_of_book_action = "close") ~> (is_exiting /\ ~has_engine)

\* the on_escape scheduled by the end of book has torn the session down
C24_Witness ==
    /\ op = Op("on_escape", 2)
    /\ "post_destroy" \in Kinds(fx)
    /\ is_exiting
    /\ settings.end_of_book_action = "close"
    /\ finished[book_id]
    /\ db[book_id] = [file |-> 0, pos |-> 0]

\* C25: end-of-book handling is applied only to the book and file that raised
\* it: play_next_file run by the 100 ms timer of on_engine_end_reached marks
\* finished and resets only the book whose playlist ended, never the book the
\* user switched to in the meantime, and it never moves the engine to the next
\* file when the user has stepped away from the last file in the meantime.
C25_EndOfBookOnlyForItsBook ==
    [][(op' = Op("play_next_file", 0) /\ has_engine)
       => /\ "mark_finished" \in Kinds(fx') => Head(later).a = book_id
          /\ "eng_playlist_next" \notin Kinds(fx')]_vars

\* the handlers that jump to a bookmark
BookmarkJumps == {"jump_to_bookmark", "on_show_bookmarks_closed"}

\* C26: a bookmark jump is two-phase: to the engine's current entry it makes
\* one in-file seek and no playlist jump; to another entry it makes one
\* playlist jump that carries the bookmark's position as the pending seek; and
\* a pending seek stays as it is until the new file reports loaded, when it is
\* applied and cleared: until then only another bookmark jump replaces it, and
\* nothing sets it to 0 or drops it because the file is changing.  (The
\* session starts at file 0 with nothing pending and every bookmark is in
\* file 1, so a pending seek is one that a playlist jump carried.)
C26_BookmarkJumpTwoPhase ==
    [][/\ op'.name \in BookmarkJumps
          => /\ CountKind(fx', "eng_playlist_jump") + CountKind(fx', "eng_set_time") <= 1
             /\ \A i \in DOMAIN fx' :
                   /\ fx'[i].k = "eng_set_time" => engine'.pos = engine.pos
                   /\ fx'[i].k = "eng_playlist_jump"
                      => /\ fx'[i].a # engine.pos
                         /\ engine'.pos = fx'[i].a
                         /\ engine'.initial /\ engine'.pending = fx'[i].b
       /\ (has_engine /\ engine.initial /\ ~engine.loaded /\ engine.pending > 0)
          => \/ UNCHANGED engine
             \/ op'.name \in BookmarkJumps
             \/ /\ op'.name = "engine_file_loaded"
                /\ engine'.loaded /\ ~engine'.initial /\ engine'.pending = 0
                /\ engine'.pos = engine.pos
                /\ engine'.time = Min(engine.pending, EngCurDur(engine))
             \/ /\ engine'.initial /\ ~engine'.loaded
                /\ engine'.pending = engine.pending
                /\ engine'.pos = engine.pos]_vars

\* C27: when the sleep timer fires with the action close_player or close_app,
\* termination is requested (on_escape of the session is posted or run, or the
\* close of the application is posted), and the session then runs teardown:
\* eventually is_exiting is true, with the final playback state saved by the
\* step that sets it.
C27_CloseActionsTearDown ==
    /\ [][/\ (op' = Op("sleep_timer_fired", 0) /\ sleep.action_key \in CloseActions)
             => \/ is_exiting'
                \/ "on_escape" \in Kinds(evq')
                \/ "post_app_close" \in Kinds(fx')
          /\ (is_exiting' /\ ~is_exiting) => "save" \in Kinds(fx')]_vars
    /\ (op = Op("sleep_timer_fired", 0) /\ fx # <<>> /\ ~is_exiting
        /\ Kinds(fx) \cap {"close_player_attribute_error", "post_app_close"} # {})
       ~> is_exiting

\* what _execute_action may do for an action and a confirmation mode
DispatchKinds(action, mode) ==
    IF action = "pause" THEN {"eng_pause"}
    ELSE IF action = "close_player" THEN {"close_player_attribute_error"}
    ELSE IF action = "close_app" THEN {"post_app_close"}
    ELSE IF action \in OS_ACTION_KEYS
    THEN (IF mode = "confirm" THEN {"post_confirm_dialog"}
          ELSE IF mode = "timed" THEN {"post_timed_dialog"}
          ELSE {"os_command"})
    ELSE {}

\* C28: start_timer replaces whatever timer was armed: after it the service
\* holds exactly the action, the confirmation mode and the deadline of this
\* call (the earlier countdown is stopped first and nothing of it is left);
\* the action and the mode change into those of an armed timer in no other
\* step, and an expiry happens only for the one armed countdown, at or after
\* its deadline, and dispatches the action and mode the service then holds.
C28_LatestStartTimerWins ==
    [][/\ \A m \in SleepMinutes, a \in SleepActions, md \in SleepModes :
            StartTimer(m, a, md)
            => /\ sleep' = [running |-> TRUE, action_key |-> a, os_action_mode |-> md,
                            end_time |-> now + m * 60, fire_at |-> now + m * 60]
               /\ is_active(sleep) => Head(fx').k = "sleep_cancel"
               /\ CountKind(fx', "sleep_armed") = 1
       /\ (sleep'.running
           /\ <<sleep'.action_key, sleep'.os_action_mode, sleep'.fire_at>>
              # <<sleep.action_key, sleep.os_action_mode, sleep.fire_at>>)
          => op'.name = "start_timer"
       /\ op' = Op("sleep_timer_fired", 0)
          => /\ sleep.running /\ now >= sleep.fire_at
             /\ ~sleep'.running
             /\ Kinds(fx') \ {"sleep_cleared"}
                  \subseteq DispatchKinds(sleep.action_key, sleep.os_action_mode)]_vars

\* start_timer has just replaced a countdown that was armed for another action
\* at an earlier time
C28_Witness ==
    /\ op.name = "start_timer"
    /\ Len(fx) = 2 /\ fx[1].k = "sleep_cancel"
    /\ sleep.running /\ sleep.action_key = "shutdown" /\ sleep.os_action_mode = "timed"
    /\ sleep.fire_at = now + 60
    /\ now > 1

\* C29: whatever paused the session, when playback goes from paused to playing
\* after a pause longer than the threshold (the step before the resume was
\* the wall clock moving on by more than smart_resume_threshold_sec while the
\* session was paused), the position playback resumes at is the paused
\* position less smart_resume_rewind_ms, floored at 0 (or 0 after the near-end
\* reset).
C29_SmartResumeWhateverTheCause ==
    [][(/\ started /\ has_engine /\ engine.loaded
        /\ ~is_playing /\ is_playing'
        /\ op.name = "clock" /\ op.a > settings.smart_resume_threshold_sec
        /\ settings.smart_resume_rewind_ms > 0
        /\ engine'.pos = engine.pos)
       => engine'.time <= Max(0, engine.time - settings.smart_resume_rewind_ms)]_vars

\* C30: when toggle_play_pause takes a session from paused to playing and the
\* position is within 1000 ms of the end of the current file, whose duration
\* is known, the position is set to 0 first and playback resumes from 0: the
\* first seek of the step is to 0 and comes before play, every further seek
\* of the step (Smart Resume's) is to 0 too, and the engine plays at 0.
C30_NearEndResumeStartsOver ==
    [][(/\ op'.name = "toggle_play_pause"
        /\ has_engine /\ engine.loaded
        /\ "eng_play" \in Kinds(fx')
        /\ current_file_duration_ms > 0
        /\ current_file_duration_ms - get_time(engine) < NearEndMs)
       => /\ fx'[1] = Fx("eng_set_time", 0, 0, 0)
          /\ \A i \in DOMAIN fx' : fx'[i].k = "eng_set_time" => fx'[i].a = 0
          /\ engine'.time = 0 /\ engine'.pos = engine.pos
          /\ engine_is_playing(engine') /\ is_playing']_vars

\* a session paused 500 ms before the end of its file for longer than the
\* threshold has been resumed: the near-end reset and Smart Resume both ran
C30_Witness ==
    /\ op.name = "toggle_play_pause"
    /\ Len(fx) = 5
    /\ fx[1] = Fx("eng_set_time", 0, 0, 0)
    /\ fx[2] = Fx("eng_set_time", 0, 0, 0)
    /\ fx[3].k = "speak_smart_resume"
    /\ fx[4].k = "eng_play"
    /\ engine.time = 0 /\ is_playing

\* the persisted position less the rewind-on-resume setting, when both are
\* positive; the persisted position otherwise
RewoundPosition ==
    IF PersistedRow.pos > 0 /\ settings.resume_rewind_ms > 0
    THEN Max(0, PersistedRow.pos - settings.resume_rewind_ms)
    ELSE PersistedRow.pos

\* C31 as stated: after a book is loaded (when the player is built, and on a
\* switch to another book) the start position is max(0, p - r) for a persisted
\* position p > 0 and a rewind r > 0, p itself when p = 0 or r = 0, and 0
\* without a persisted state.
C31_ResumeRewindAsStated ==
    (op.name \in {"init", "load_new_book"} /\ ~is_exiting)
    => start_pos_ms = (IF PersistedRow = NoState THEN 0 ELSE RewoundPosition)

\* C31: the same for a persisted file index that the book has; with a
\* persisted index outside the book's files the start position is 0 whatever
\* p and r are.
C31_ResumeRewind ==
    (op.name \in {"init", "load_new_book"} /\ ~is_exiting)
    => start_pos_ms = (IF PersistedRow = NoState \/ ~PersistedInRange THEN 0
                       ELSE RewoundPosition)

\* a switch to a book saved at 3000 ms of its file, with a rewind of 5000 ms:
\* the start position is floored at 0
C31_Witness ==
    /\ op.name = "load_new_book"
    /\ ~is_exiting
    /\ PersistedRow = [file |-> 0, pos |-> 3000]
    /\ settings.resume_rewind_ms = 5000
    /\ start_pos_ms = 0
    /\ current_file_index = 0

\* the ids written by the batches so far, and the tasks whose probe fails
FlushedIds(batches) == UNION {Ids(batches[k]) : k \in DOMAIN batches}
FailedTasks(pattern, m) == {j \in 1..m : ~get_file_duration_task(pattern, j)}

\* C32: a probe that gives no result costs only its own file: the step that
\* consumes it moves on to the next task and changes nothing else of the
\* worker (nothing is written, nothing held is dropped, the worker goes on);
\* a failed file is never among the results held or written, so its stored
\* duration stays 0; and when the worker is done every task has been
\* consumed and every successful result has been written.
C32_ProbeFailureDropsOneFile ==
    [][/\ worker'.pc # "idle"
          => /\ FailedTasks(worker'.pattern, worker'.n)
                  \cap (FlushedIds(worker'.flushed) \cup Ids(worker'.updates)) = {}
             /\ worker'.pc = "done"
                => /\ worker'.i = worker'.n + 1
                   /\ FlushedIds(worker'.flushed)
                        = (1..worker'.n) \ FailedTasks(worker'.pattern, worker'.n)
       /\ (/\ worker.pc = "map" /\ ~worker.tx /\ worker.i <= worker.n
           /\ ~get_file_duration_task(worker.pattern, worker.i)
           /\ worker' # worker)
          => worker' = [worker EXCEPT !.i = @ + 1]]_vars

\* 101 tasks whose first probe failed: the other 100 were written, in one batch
C32_Witness ==
    /\ worker.pc = "done"
    /\ worker.n = 101
    /\ worker.pattern = "first_fails"
    /\ Len(worker.flushed) = 1
    /\ Ids(worker.flushed[1]) = 2..101

\* C33: a switch to another book posts the update of the caller's history
\* view only if more than 60 seconds were listened to in the outgoing book:
\* none is posted by a switch made while the engine's position is not past
\* the persisted position the outgoing book was opened at (nothing has been
\* listened to since).
C33_HistoryOnlyAfterListening ==
    [][(/\ op'.name = "load_new_book"
        /\ has_engine /\ ~is_exiting
        /\ PersistedRow # NoState
        /\ get_time(engine) <= PersistedRow.pos)
       => "post_update_history" \notin Kinds(fx')]_vars

\* C34: toggle_file_loop leaves loop point A and the engine's A-B loop as they
\* are and sends no A-B loop command; set_loop_start, set_loop_end and
\* clear_loop leave the file-repeat flag of the session and of the engine as
\* they are and send no loop-file command.
C34_FileRepeatAndAbLoopIndependent ==
    [][/\ op'.name = "toggle_file_loop"
          => /\ loop_point_a_ms' = loop_point_a_ms
             /\ engine'.ab_loop_a = engine.ab_loop_a
             /\ engine'.ab_loop_b = engine.ab_loop_b
             /\ Kinds(fx') \cap {"eng_set_loop_a", "eng_set_loop_b", "eng_clear_loop"} = {}
       /\ op'.name \in {"set_loop_start", "set_loop_end", "clear_loop"}
          => /\ is_file_looping' = is_file_looping
             /\ engine'.loop_file = engine.loop_file
             /\ "eng_set_loop_file" \notin Kinds(fx')]_vars

\* file repeat was switched on while an A-B loop was active: both are on
C34_Witness ==
    /\ op.name = "toggle_file_loop"
    /\ is_file_looping /\ engine.loop_file
    /\ loop_point_a_ms = 5000
    /\ engine.ab_loop_a = 5000 /\ engine.ab_loop_b = 19500

\* C35: writes to the catalog from the session and from the worker exclude
\* each other: while the worker's batch transaction is open on the shared
\* connection (it holds the catalog lock), no step of the session writes to
\* the catalog, neither the playback state nor the finished mark.
C35_CatalogWritesExclusive ==
    [][(worker.tx /\ worker' = worker)
          => Kinds(fx') \cap (LockedWrites \cup UnlockedWrites) = {}]_vars

\* C36: while the session is not exiting, the UI refresh timer runs exactly
\* when is_playing is true, whatever was done before: start_playback (loaded
\* or failed), toggle, stop, the end of the book, the bookmarks dialog opened
\* and closed, the sleep timer's pause, a switch to another book.
C36_UiTimerFollowsIsPlaying ==
    ~is_exiting => (ui_timer <=> is_playing)

\* the first book was played to its end and stopped, the second one opened,
\* paused by the bookmarks dialog and resumed when the dialog closed
C36_Witness ==
    /\ ~is_exiting
    /\ is_playing
    /\ ui_timer
    /\ book_id = 2
    /\ finished[1]
    /\ op.name = "on_show_bookmarks_closed"
    /\ "eng_play" \in Kinds(fx)

\* C37: a periodic or teardown save pairs a file index and a position of the
\* same file: when it runs with an engine that has a file loaded, the index
\* it writes is the session's index of the file the engine is in, also while
\* the FileChanged event of the engine's move is still waiting.
C37_SavedIndexAndPositionAgree ==
    [][(op'.name \in {"on_ui_timer", "on_escape"} /\ has_engine /\ engine.loaded)
          => \A i \in DOMAIN fx' :
                fx'[i].k = "save"
                   => /\ fx'[i].b = ToSequence(engine_to_frame_index_map, engine.pos)
                      /\ fx'[i].c = get_time(engine)]_vars

\* C38: a session whose playback never started (load_playlist returned
\* false in start_playback) and which is then torn down by the on_escape it
\* posted leaves the file index and the position persisted for its book as
\* they were.
C38_FailedStartKeepsPersistedState ==
    [][(/\ op.name = "start_playback" /\ "msg_load_failed" \in Kinds(fx)
        /\ op'.name = "on_escape"
        /\ db[book_id] # NoState)
          => db'[book_id] = db[book_id]]_vars

\* C39: a teardown that comes after load_playlist succeeded and before the
\* engine has loaded the file (the start position is still pending) persists
\* the session's start position, not 0.
C39_EarlyTeardownKeepsStartPosition ==
    [][(/\ op'.name = "on_escape" /\ ~is_exiting /\ has_engine
        /\ is_playing /\ engine.count > 0 /\ ~engine.loaded
        /\ engine.initial /\ engine.pending = start_pos_ms /\ start_pos_ms > 0)
          => db'[book_id].pos = start_pos_ms]_vars

\* C40: the toggle scheduled by a jump made while paused (resume_on_jump)
\* leaves the session playing: when it runs on a session that is already
\* playing again it does not pause it, and on a session that was torn down
\* it does nothing.
C40_ScheduledToggleOnlyResumes ==
    [][op' = Op("toggle_play_pause", 1)
          => /\ (has_engine /\ is_playing) => (is_playing' /\ engine_is_playing(engine'))
             /\ ~has_engine => (fx' = <<>> /\ engine' = engine /\ ~is_playing')]_vars

====
